---- MODULE Spec2Model ----
(***************************************************************************)
(* Batch generation of the static figures of plot.py.                      *)
(*                                                                         *)
(* The module defines thirteen figure routines, create_..., and one driver *)
(* (generate_all_scientific_figures).  A routine is modelled as the        *)
(* sequence of its statements, grouped into steps; the state machine       *)
(* interprets the steps one at a time.  Every step may raise: an exception *)
(* raised inside a try block with a bare except continues after the block, *)
(* any other exception leaves the routine and, the driver having no        *)
(* handler, ends the run.                                                  *)
(*                                                                         *)
(* Numbers are held in thousandths (6.0 is 6000, 0.985 is 985).  Strings   *)
(* are the source's, with line breaks written as spaces and non-ASCII      *)
(* characters transliterated.                                              *)
(***************************************************************************)
EXTENDS Integers, Sequences, FiniteSets, TLC

VARIABLES
    mode,     \* "driver": the module run as a script; "free": a caller invoking routines
    status,   \* "running", "done" (the driver returned) or "aborted" (uncaught exception)
    dpc,      \* index of the driver's next statement in DriverProg
    cur,      \* the routine being executed, or "none"
    rpc,      \* index of the routine's next step in Body(cur)
    locals,   \* the literal sequences the routine has bound (a record), <<>> before
    figs,     \* pyplot's open figures, oldest first; each is the set of its elements
    files,    \* the file system: path -> content (the set of elements saved)
    trace,    \* the run so far: print, call and return events
    calls,    \* routine -> number of invocations
    ev,       \* the current invocation's open/save/close events, in order
    caught,   \* the steps of the current invocation whose exception a bare except swallowed
    rets,     \* the invocations that returned: [r, ev, caught, content]
    err,      \* where the uncaught exception was raised, NoErr if none
    faults,   \* number of exceptions raised so far
    rc,       \* plt.rcParams, the module-level style configuration
    palette   \* the shared list colors_scientific

vars == <<mode, status, dpc, cur, rpc, locals, figs, files, trace, calls, ev, caught,
          rets, err, faults, rc, palette>>

(* Bounds of the model *)
MaxFaults == 1
MaxCalls == 2

(***************************************************************************)
(* The embedded datasets                                                   *)
(***************************************************************************)
(* Literal sequences of create_synthesis_diagram_enhancement_pathways; lines 40, 41, 67, 68, 76,
          89, 90, 107, 108 *)
create_synthesis_diagram_enhancement_pathways_data ==
    [ problems |-> <<"Carbon Limitation", "Temperature Sensitivity", "Hydraulic Issues",
          "N2O Emissions">>,
      solutions |-> <<<<"Methanol/Acetate", "Alternative Media">>, <<"Insulation",
          "Controlled Environment">>, <<"Design Optimization", "Flow Distribution">>,
          <<"HRT Control", "Media Selection">>>>,
      metrics |-> <<"Removal Rate", "Cost", "N2O Emissions", "DOC Leaching", "Maintenance">>,
      positions |-> <<<<500, 800>>, <<200, 500>>, <<800, 500>>, <<200, 200>>, <<800, 200>>>>,
      connections |-> <<<<0, 1>>, <<0, 2>>, <<0, 3>>, <<1, 4>>>>,
      years |-> <<2000000, 2005000, 2010000, 2015000, 2020000, 2025000>>,
      milestones |-> <<"Basic Woodchips", "Design Optimization", "Carbon Dosing",
          "Alternative Media", "Smart Systems", "Future Integration">>,
      levels |-> <<"Policy/Regulation", "System Design", "Enhancement Strategy", "Implementation">>,
      level_items |-> <<<<"Water Quality Standards", "Economic Incentives">>, <<"Site Assessment",
          "Sizing Protocols">>, <<"Carbon Dosing", "Media Selection", "Hydraulic Design">>,
          <<"Monitoring", "Maintenance", "Optimization">>>> ]

(* The meta-analysis data with a Control interval that is not centred on the mean *)
create_meta_analysis_performance_plot_data_skewed ==
    [ strategies |-> <<"Control", "Carbon Dosing", "Alternative Media", "Mixed Media",
          "Design Optimization">>,
      studies_per_strategy |-> <<15000, 8000, 14000, 9000, 11000>>,
      mean_rates |-> <<6000, 7000, 14000, 11000, 9200>>,
      ci_lower |-> <<4000, 4900, 10200, 7800, 6300>>,
      ci_upper |-> <<8200, 9100, 17800, 14200, 12100>>,
      cost_data |-> <<25000, 86000, 12000, 15000, 30000>>,
      cost_uncertainty |-> <<8000, 15000, 3000, 4000, 8000>>,
      n2o_emissions |-> <<1000, 1300, 800, 1100, 900>>,
      sizes |-> <<5000, 10000, 15000>>,
      size_labels |-> <<"5 studies", "10 studies", "15 studies">> ]

(* Literal sequences of create_meta_analysis_performance_plot; lines 147, 148, 153, 155, 156, 187,
          188, 189, 215, 216 *)
create_meta_analysis_performance_plot_data ==
    [ strategies |-> <<"Control", "Carbon Dosing", "Alternative Media", "Mixed Media",
          "Design Optimization">>,
      studies_per_strategy |-> <<15000, 8000, 14000, 9000, 11000>>,
      mean_rates |-> <<6000, 7000, 14000, 11000, 9200>>,
      ci_lower |-> <<3800, 4900, 10200, 7800, 6300>>,
      ci_upper |-> <<8200, 9100, 17800, 14200, 12100>>,
      cost_data |-> <<25000, 86000, 12000, 15000, 30000>>,
      cost_uncertainty |-> <<8000, 15000, 3000, 4000, 8000>>,
      n2o_emissions |-> <<1000, 1300, 800, 1100, 900>>,
      sizes |-> <<5000, 10000, 15000>>,
      size_labels |-> <<"5 studies", "10 studies", "15 studies">> ]

(* Literal sequences of create_fig1_removal_rates_by_strategy; lines 231, 238, 239, 245, 246 *)
create_fig1_removal_rates_by_strategy_data ==
    [ strategies |-> <<"Control", "Bio- augmentation", "Media Modification",
          "Hydraulic Optimization", "Mixed Media", "Design Modification", "Alternative Media",
          "Carbon Supplementation">>,
      n_studies |-> <<15000, 8000, 12000, 11000, 9000, 6000, 14000, 8000>>,
      n_observations |-> <<45000, 18000, 28000, 25000, 22000, 12000, 35000, 15000>>,
      rates |-> <<6000, 4200, 8500, 9200, 11000, 13500, 14000, 7000>>,
      std_devs |-> <<2000, 1500, 2100, 2500, 2800, 3200, 4000, 2500>> ]

(* Literal sequences of create_fig2_rate_vs_efficiency; lines 295, 297, 300, 301, 303, 304 *)
create_fig2_rate_vs_efficiency_data ==
    [ lab_rates |-> <<19800, 15000, 7400, 6200, 38000, 8200, 14200, 8800, 7400, 8800, 9300, 11000,
          7800, 47600, 8500, 18200, 9000, 7700, 9000, 18600, 12000, 10500>>,
      lab_efficiency |-> <<80000, 50000, 60000, 55000, 93000, 58000, 61000, 68000, 58000, 52000,
          62000, 60000, 45000, 65000, 45000, 72000, 40000, 50000, 55000, 73000, 60000, 61000>>,
      pilot_rates |-> <<10500, 8400, 12500, 7000, 8500, 7500, 14500>>,
      pilot_efficiency |-> <<43000, 41000, 48000, 45000, 32000, 50000, 51000>>,
      field_rates |-> <<8600, 5100, 12000, 6000, 5800, 4400, 7800, 3000>>,
      field_efficiency |-> <<85000, 20000, 95000, 60000, 40000, 30000, 45000, 30000>> ]

(* Literal sequences of create_fig4_temperature_sensitivity; lines 384, 394, 395, 397 *)
create_fig4_temperature_sensitivity_data ==
    [ categories |-> <<"Fresh Woodchips (Continuous)", "Aged Woodchips (>3 years)",
          "Continuously Saturated", "After Drying- Rewetting">>,
      q10_values |-> <<2100, 3000, 1800, 2400>>,
      q10_errors |-> <<200, 200, 150, 200>>,
      colors |-> <<"#264653", "#2A9D8F", "#E9C46A", "#F4A261">> ]

(* Literal sequences of create_fig6_greenhouse_gas; lines 598, 603, 604, 609, 610 *)
create_fig6_greenhouse_gas_data ==
    [ hrt_hours |-> <<2000, 4000, 6000, 8000, 12000, 16000, 20000, 24000, 30000>>,
      n2o_emissions |-> <<1200, 900, 700, 600, 400, 300, 350, 450, 500>>,
      n2o_error |-> <<120, 90, 70, 60, 40, 30, 40, 50, 50>>,
      ch4_emissions |-> <<20, 30, 40, 60, 120, 280, 450, 680, 950>>,
      ch4_error |-> <<2, 3, 4, 6, 12, 28, 45, 68, 95>> ]

(* The phosphorus data with a startup value whose error bar ends below -50 *)
create_fig7_phosphorus_removal_data_low ==
    [ media_types |-> <<"Woodchips Only", "Woodchips + Iron Materials", "Woodchips + Steel Chips",
          "Woodchips + Fly Ash">>,
      startup_removal |-> <<-48000, 25000, 40000, 68000>>,
      startup_error |-> <<5000, 10000, 8000, 4000>>,
      steady_removal |-> <<22000, 50000, 65000, 75000>>,
      steady_error |-> <<4000, 10000, 8000, 4000>>,
      study_counts |-> <<"n=15 (52 obs)", "n=8 (24 obs)", "n=10 (31 obs)", "n=6 (18 obs)">> ]

(* Literal sequences of create_fig7_phosphorus_removal; lines 673, 676, 677, 679, 680, 700 *)
create_fig7_phosphorus_removal_data ==
    [ media_types |-> <<"Woodchips Only", "Woodchips + Iron Materials", "Woodchips + Steel Chips",
          "Woodchips + Fly Ash">>,
      startup_removal |-> <<-35000, 25000, 40000, 68000>>,
      startup_error |-> <<5000, 10000, 8000, 4000>>,
      steady_removal |-> <<22000, 50000, 65000, 75000>>,
      steady_error |-> <<4000, 10000, 8000, 4000>>,
      study_counts |-> <<"n=15 (52 obs)", "n=8 (24 obs)", "n=10 (31 obs)", "n=6 (18 obs)">> ]

(* Literal sequences of create_fig8_doc_leaching; lines 728-744, 791-792 *)
create_fig8_doc_leaching_data ==
    [ time_periods |-> <<"Initial (0-3 months)", "Medium-term (3-12 months)",
          "Long-term (>12 months)">>,
      woodchips |-> <<71800, 20700, 3000>>,
      corn_cobs |-> <<95000, 28000, 5500>>,
      cereal_straws |-> <<85000, 25000, 4200>>,
      pre_leached |-> <<35000, 15000, 2500>>,
      composted_chips |-> <<45000, 18000, 2800>>,
      woodchips_err |-> <<7200, 2100, 300>>,
      corn_cobs_err |-> <<9500, 2800, 600>>,
      cereal_straws_err |-> <<8500, 2500, 400>>,
      pre_leached_err |-> <<3500, 1500, 300>>,
      composted_chips_err |-> <<4500, 1800, 300>>,
      colors_trend |-> <<"#8B4513", "#FFD700", "#FF8C00", "#90EE90", "#228B22">>,
      data_sets |-> <<"woodchips", "corn_cobs", "cereal_straws", "pre_leached",
          "composted_chips">> ]

(* Literal sequences of create_fig3_hydraulic_performance; lines 810-820, 841, 859 *)
create_fig3_hydraulic_performance_data ==
    [ years |-> <<"2018 (No carbon)", "2020 (First year carbon dosing)",
          "2021 (Second year carbon dosing)">>,
      hydraulic_conductivity |-> <<4601000, 2800000, 1600000>>,
      error_bars |-> <<460000, 280000, 160000>>,
      carbon_rates |-> <<0, 10000, 5000>>,
      colors |-> <<"#2E86AB", "#F18F01", "#C73E1D">>,
      ax2_colors |-> <<"gray", "#FF6B6B", "#FF9999">>,
      ax2_xticklabels |-> <<"2018", "2020", "2021">> ]

(* create_fig5_cost_analysis with the last typical cost missing *)
create_fig5_cost_analysis_data_short ==
    [ strategies |-> <<"Control (Woodchips)", "Alternative Media (Corn Cobs)",
          "Mixed Media (75% Cobs)", "Carbon Supplementation (Acetate)">>,
      low_cost |-> <<20000, 10600, 22400, 74000>>,
      high_cost |-> <<45000, 13900, 60100, 93000>>,
      typical_cost |-> <<33000, 12200, 40000>> ]

(* create_fig5_cost_analysis plotting the acetate cost as published, not deflated *)
create_fig5_cost_analysis_data_raw ==
    [ strategies |-> <<"Control (Woodchips)", "Alternative Media (Corn Cobs)",
          "Mixed Media (75% Cobs)", "Carbon Supplementation (Acetate)">>,
      low_cost |-> <<20000, 10600, 22400, 74000>>,
      high_cost |-> <<45000, 13900, 60100, 93000>>,
      typical_cost |-> <<33000, 12200, 40000, 86000>> ]

(* Literal sequences of create_fig5_cost_analysis; lines 874, 882, 883, 884 *)
create_fig5_cost_analysis_data ==
    [ strategies |-> <<"Control (Woodchips)", "Alternative Media (Corn Cobs)",
          "Mixed Media (75% Cobs)", "Carbon Supplementation (Acetate)">>,
      low_cost |-> <<20000, 10600, 22400, 74000>>,
      high_cost |-> <<45000, 13900, 60100, 93000>>,
      typical_cost |-> <<33000, 12200, 40000, 85000>> ]

(* Literal sequences of create_fig9_wood_species_comparison; lines 929, 932, 933, 936, 937, 940,
          941, 945 *)
create_fig9_wood_species_comparison_data ==
    [ species |-> <<"Commercial Hardwood", "EAB-killed Ash", "High-tannin Oak">>,
      nitrate_removal |-> <<12500, 12800, 15200>>,
      removal_error |-> <<1200, 1300, 1500>>,
      n2o_production |-> <<1000, 700, 1200>>,
      n2o_error |-> <<100, 70, 120>>,
      p_leaching |-> <<2500, 2200, 3100>>,
      p_error |-> <<250, 220, 310>>,
      colors |-> <<"#264653", "#2A9D8F", "#E9C46A">> ]

(* Literal sequences of create_fig10_temperature_modeling; lines 1005-1015, 1044 *)
create_fig10_temperature_modeling_data ==
    [ temperatures |-> <<4000, 8000, 12000, 16000, 20000, 24000, 28000, 30000>>,
      exp_temps |-> <<4000, 12000, 20000, 30000>>,
      exp_rates |-> <<3200, 6500, 8000, 12800>>,
      exp_errors |-> <<400, 700, 800, 1300>>,
      doc_exp_temps |-> <<4000, 12000, 20000, 30000>>,
      doc_exp_values |-> <<8200, 12800, 15000, 22100>> ]

(* The colour dictionary and the legend entries of the flowchart; lines 445-452, 581-588 *)
create_fig12_decision_framework_data ==
    [ colors |-> <<"start", "assessment", "decision", "strategy", "implementation", "outcome">>,
      legend_elements |-> <<"Start/End", "Assessment", "Climate Strategies",
          "Loading Strategies", "Implementation", "Targets">> ]

(* The same keys with matplotlib's own save resolution *)
rcParams_default_dpi ==
    [ font_family |-> "serif",
      font_serif |-> <<"Times New Roman", "DejaVu Serif">>,
      font_size |-> 12,
      axes_linewidth |-> 1200,
      axes_spines_top |-> FALSE,
      axes_spines_right |-> FALSE,
      axes_grid |-> TRUE,
      grid_alpha |-> 300,
      figure_dpi |-> 100,
      savefig_dpi |-> 100,
      savefig_bbox |-> "tight",
      savefig_format |-> "pdf" ]

(* plt.rcParams after the update of lines 12-25 (the keys it sets) *)
rcParams ==
    [ font_family |-> "serif",
      font_serif |-> <<"Times New Roman", "DejaVu Serif">>,
      font_size |-> 12,
      axes_linewidth |-> 1200,
      axes_spines_top |-> FALSE,
      axes_spines_right |-> FALSE,
      axes_grid |-> TRUE,
      grid_alpha |-> 300,
      figure_dpi |-> 300,
      savefig_dpi |-> 300,
      savefig_bbox |-> "tight",
      savefig_format |-> "pdf" ]

(* The shared palette; line 28 *)
colors_scientific ==
    <<"#2E86AB", "#A23B72", "#F18F01", "#C73E1D", "#6A994E", "#F2CC8F", "#81B29A", "#3D405B">>

(* The routines that colour their elements from the shared palette *)
UsesPalette ==
    { "create_synthesis_diagram_enhancement_pathways",      \* lines 49, 52, 71, 94, 121
      "create_meta_analysis_performance_plot" }             \* line 167

(* rates * 0.65 and rates * 0.35 (lines 250-251), factor in thousandths *)
Scaled(seq, factor) == [i \in 1..Len(seq) |-> (seq[i] * factor) \div 1000]

(***************************************************************************)
(* The temperature law of create_fig10_temperature_modeling, lines         *)
(* 1008-1010 and 1018-1019.  Rates are in thousandths; powers are held in  *)
(* ten-thousandths, where 10000 is 1.0.                                    *)
(***************************************************************************)
base_rate == 8000     \* line 1008
theta == 1160         \* line 1009
doc_base == 15000     \* line 1018
doc_theta == 1120     \* line 1019, the literal 1.12

(* a * b for two powers in ten-thousandths *)
MulS(a, b) == (a * b) \div 10000

(* x ** n for a whole exponent n >= 0; x ** 0 is exactly 1.0, x ** 1 is x *)
RECURSIVE PowI(_, _)
PowI(x, n) == IF n = 0 THEN 10000 ELSE MulS(x, PowI(x, n - 1))

(* x ** 0.1 for x >= 1.0: the largest r with r ** 10 <= x *)
Root10(x) == CHOOSE r \in 10000..x : PowI(r, 10) <= x /\ PowI(r + 1, 10) > x

(* x ** (n / 10) for n >= 0 tenths: the whole part times the fractional part *)
PowTenths(x, n) ==
    IF n % 10 = 0 THEN PowI(x, n \div 10)
    ELSE MulS(PowI(x, n \div 10), PowI(Root10(x), n % 10))

(* x ** (n / 10) for n tenths of either sign *)
Pow(x, n) ==
    IF n < 0 THEN (10000 * 10000) \div PowTenths(x, 0 - n) ELSE PowTenths(x, n)

(* The law without its reference temperature: base * coefficient ** (temperatures / 10) *)
ArrheniusFromZero(base, coefficient, temperatures) ==
    [ i \in 1..Len(temperatures) |->
        (base * Pow(coefficient * 10, temperatures[i] \div 1000)) \div 10000 ]

(* base * (coefficient ** ((temperatures - 20) / 10)), element by element *)
Arrhenius(base, coefficient, temperatures) ==
    [ i \in 1..Len(temperatures) |->
        (base * Pow(coefficient * 10, (temperatures[i] - 20000) \div 1000)) \div 10000 ]

modeled_rates ==
    Arrhenius(base_rate, theta, create_fig10_temperature_modeling_data.temperatures)

doc_rates ==
    Arrhenius(doc_base, doc_theta, create_fig10_temperature_modeling_data.temperatures)

Routines ==
    { "create_synthesis_diagram_enhancement_pathways",
      "create_meta_analysis_performance_plot",
      "create_fig1_removal_rates_by_strategy",
      "create_fig2_rate_vs_efficiency",
      "create_fig4_temperature_sensitivity",
      "create_fig12_decision_framework",
      "create_fig6_greenhouse_gas",
      "create_fig7_phosphorus_removal",
      "create_fig8_doc_leaching",
      "create_fig3_hydraulic_performance",
      "create_fig5_cost_analysis",
      "create_fig9_wood_species_comparison",
      "create_fig10_temperature_modeling" }

(* The sequences a routine binds when it runs its literal assignments *)
Data(r) ==
    CASE r = "create_synthesis_diagram_enhancement_pathways" ->
             create_synthesis_diagram_enhancement_pathways_data
      [] r = "create_meta_analysis_performance_plot" ->
             create_meta_analysis_performance_plot_data
      [] r = "create_fig1_removal_rates_by_strategy" ->
             [ strategies |-> create_fig1_removal_rates_by_strategy_data.strategies,
               n_studies |-> create_fig1_removal_rates_by_strategy_data.n_studies,
               n_observations |-> create_fig1_removal_rates_by_strategy_data.n_observations,
               rates |-> create_fig1_removal_rates_by_strategy_data.rates,
               std_devs |-> create_fig1_removal_rates_by_strategy_data.std_devs,
               lab_rates |-> Scaled(create_fig1_removal_rates_by_strategy_data.rates, 650),
               field_rates |-> Scaled(create_fig1_removal_rates_by_strategy_data.rates, 350) ]
      [] r = "create_fig2_rate_vs_efficiency" -> create_fig2_rate_vs_efficiency_data
      [] r = "create_fig4_temperature_sensitivity" -> create_fig4_temperature_sensitivity_data
      [] r = "create_fig12_decision_framework" -> create_fig12_decision_framework_data
      [] r = "create_fig6_greenhouse_gas" -> create_fig6_greenhouse_gas_data
      [] r = "create_fig7_phosphorus_removal" -> create_fig7_phosphorus_removal_data
      [] r = "create_fig8_doc_leaching" -> create_fig8_doc_leaching_data
      [] r = "create_fig3_hydraulic_performance" -> create_fig3_hydraulic_performance_data
      [] r = "create_fig5_cost_analysis" -> create_fig5_cost_analysis_data
      [] r = "create_fig9_wood_species_comparison" -> create_fig9_wood_species_comparison_data
      [] r = "create_fig10_temperature_modeling" ->
             [ temperatures |-> create_fig10_temperature_modeling_data.temperatures,
               modeled_rates |-> modeled_rates,
               exp_temps |-> create_fig10_temperature_modeling_data.exp_temps,
               exp_rates |-> create_fig10_temperature_modeling_data.exp_rates,
               exp_errors |-> create_fig10_temperature_modeling_data.exp_errors,
               doc_rates |-> doc_rates,
               doc_exp_temps |-> create_fig10_temperature_modeling_data.doc_exp_temps,
               doc_exp_values |-> create_fig10_temperature_modeling_data.doc_exp_values ]

(***************************************************************************)
(* The sequences each routine uses index by index: the arguments of one    *)
(* zip, of one bar/scatter/errorbar call, or of a tick/label pair.         *)
(***************************************************************************)
Aligned(r) ==
    CASE r = "create_synthesis_diagram_enhancement_pathways" ->
             { {"problems", "solutions"}, {"metrics", "positions"},
               {"years", "milestones"}, {"levels", "level_items"} }
      [] r = "create_meta_analysis_performance_plot" ->
             { {"strategies", "mean_rates", "ci_lower", "ci_upper", "studies_per_strategy",
                "cost_data", "cost_uncertainty", "n2o_emissions"},
               {"sizes", "size_labels"} }
      [] r = "create_fig1_removal_rates_by_strategy" ->
             { {"strategies", "n_studies", "n_observations", "rates", "std_devs",
                "lab_rates", "field_rates"} }
      [] r = "create_fig2_rate_vs_efficiency" ->
             { {"lab_rates", "lab_efficiency"}, {"pilot_rates", "pilot_efficiency"},
               {"field_rates", "field_efficiency"} }
      [] r = "create_fig4_temperature_sensitivity" ->
             { {"categories", "q10_values", "q10_errors", "colors"} }
      [] r = "create_fig12_decision_framework" ->
             { {"colors", "legend_elements"} }
      [] r = "create_fig6_greenhouse_gas" ->
             { {"hrt_hours", "n2o_emissions", "n2o_error", "ch4_emissions", "ch4_error"} }
      [] r = "create_fig7_phosphorus_removal" ->
             { {"media_types", "startup_removal", "startup_error", "steady_removal",
                "steady_error", "study_counts"} }
      [] r = "create_fig8_doc_leaching" ->
             { {"time_periods", "woodchips", "corn_cobs", "cereal_straws", "pre_leached",
                "composted_chips", "woodchips_err", "corn_cobs_err", "cereal_straws_err",
                "pre_leached_err", "composted_chips_err"},
               {"colors_trend", "data_sets"} }
      [] r = "create_fig3_hydraulic_performance" ->
             { {"years", "hydraulic_conductivity", "error_bars", "carbon_rates", "colors",
                "ax2_colors", "ax2_xticklabels"} }
      [] r = "create_fig5_cost_analysis" ->
             { {"strategies", "low_cost", "typical_cost", "high_cost"} }
      [] r = "create_fig9_wood_species_comparison" ->
             { {"species", "nitrate_removal", "removal_error", "n2o_production",
                "n2o_error", "p_leaching", "p_error", "colors"} }
      [] r = "create_fig10_temperature_modeling" ->
             { {"temperatures", "modeled_rates", "doc_rates"},
               {"exp_temps", "exp_rates", "exp_errors"},
               {"doc_exp_temps", "doc_exp_values"} }

(***************************************************************************)
(* The routines.  A step is [k, a, h]: its kind, its argument (the element *)
(* drawn, the fit made, the path saved, the line printed) and h, the index *)
(* of the step that follows the enclosing try block (0 outside any try).   *)
(*   data      the literal assignments                                     *)
(*   subplots  plt.subplots: opens a figure and makes it current           *)
(*   draw      plotting calls that add the element a                       *)
(*   style     labels, titles, ticks, limits, grid, tight_layout           *)
(*   legend    ax.legend() on the axes a                                   *)
(*   fit       curve_fit / np.polyfit and the evaluation of the fit        *)
(*   corr      stats.pearsonr                                              *)
(*   savefig   plt.savefig(a)                                              *)
(*   close     plt.close()                                                 *)
(*   print     print(a)                                                    *)
(***************************************************************************)
S(k, a) == [k |-> k, a |-> a, h |-> 0]
T(k, a, h) == [k |-> k, a |-> a, h |-> h]

(* lines 30-134 *)
create_synthesis_diagram_enhancement_pathways ==
    << S("subplots", "fig"),                                         \* 35-36
       S("data", ""),                                                \* 40-44, 67-68, 76, 89-90, 107-111
       S("draw", "ax1:problem_solution_matrix"),                     \* 39-62
       S("draw", "ax2:tradeoff_network"),                            \* 65-85
       S("draw", "ax3:timeline"),                                    \* 88-102
       S("draw", "ax4:integration_framework"),                       \* 105-129
       S("style", "tight_layout"),                                   \* 131
       S("savefig", "fig_synthesis_enhancement_pathways.pdf"),       \* 132
       S("close", ""),                                               \* 133
       S("print", "Created synthesis diagram: fig_synthesis_enhancement_pathways.pdf") >> \* 134

(* lines 136-227 *)
create_meta_analysis_performance_plot ==
    << S("subplots", "fig"),                                         \* 141-142
       S("data", ""),                                                \* 147-156, 187-189, 215-216
       S("draw", "ax1:forest_plot"),                                 \* 145, 158-176
       S("draw", "ax1:control_mean_line"),                           \* 177
       S("draw", "ax1:control_ci_band"),                             \* 178
       S("legend", "ax1"),                                           \* 179
       S("style", "grid"),                                           \* 180-183
       S("draw", "ax2:bubble_scatter"),                              \* 192-194
       S("draw", "ax2:cost_errorbars"),                              \* 197-198
       S("draw", "ax2:strategy_labels"),                             \* 201-212
       S("draw", "ax2:size_handles"),                                \* 217-219
       S("legend", "ax2"),                                           \* 220
       S("style", "tight_layout"),                                   \* 222-224
       S("savefig", "fig_meta_analysis_performance.pdf"),            \* 225
       S("close", ""),                                               \* 226
       S("print", "Created meta-analysis plot: fig_meta_analysis_performance.pdf") >> \* 227

(* lines 229-289 *)
create_fig1_removal_rates_by_strategy ==
    << S("data", ""),                                                \* 231-251
       S("subplots", "fig"),                                         \* 253
       S("draw", "ax:lab_bars"),                                     \* 255-258
       S("draw", "ax:field_bars"),                                   \* 259
       S("draw", "ax:errorbars"),                                    \* 262
       S("draw", "ax:count_labels"),                                 \* 266-272
       S("style", "labels"),                                         \* 275-280
       S("legend", "ax"),                                            \* 281
       S("style", "tight_layout"),                                   \* 284-287
       S("savefig", "fig1_removal_rates_scientific.pdf"),            \* 288
       S("close", "") >>                                             \* 289

(* create_fig2_rate_vs_efficiency with savefig indented into the last try block *)
create_fig2_save_in_try ==
    << S("data", ""), S("subplots", "fig"), S("draw", "ax:scatter"),
       T("fit", "lab", 7), T("draw", "ax:lab_trend", 7), T("draw", "ax:lab_band", 7),
       T("fit", "field", 9), T("draw", "ax:field_trend", 9),
       S("style", "labels"), S("legend", "ax"), S("style", "limits"),
       T("corr", "r2", 16), T("draw", "ax:r2_text", 16), T("style", "tight_layout", 16),
       T("savefig", "fig2_rate_efficiency_scientific.pdf", 16),
       S("close", "") >>

(* create_fig2_rate_vs_efficiency with both fits in one try block *)
create_fig2_one_try ==
    << S("data", ""),
       S("subplots", "fig"),
       S("draw", "ax:scatter"),
       T("fit", "lab", 9),
       T("draw", "ax:lab_trend", 9),
       T("draw", "ax:lab_band", 9),
       T("fit", "field", 9),
       T("draw", "ax:field_trend", 9),
       S("style", "labels"),
       S("legend", "ax"),
       S("style", "limits"),
       T("corr", "r2", 14),
       T("draw", "ax:r2_text", 14),
       S("style", "tight_layout"),
       S("savefig", "fig2_rate_efficiency_scientific.pdf"),
       S("close", "") >>

(* lines 291-379 *)
create_fig2_rate_vs_efficiency ==
    << S("data", ""),                                                \* 295-304
       S("subplots", "fig"),                                         \* 306
       S("draw", "ax:scatter"),                                      \* 309-326
       T("fit", "lab", 7),                                           \* 330-337  try 329
       T("draw", "ax:lab_trend", 7),                                 \* 339-340
       T("draw", "ax:lab_band", 7),                                  \* 341-342  except 343
       T("fit", "field", 9),                                         \* 348-350  try 347
       T("draw", "ax:field_trend", 9),                               \* 351-352  except 353
       S("style", "labels"),                                         \* 357-360
       S("legend", "ax"),                                            \* 362
       S("style", "limits"),                                         \* 363-365
       T("corr", "r2", 14),                                          \* 369-370  try 368
       T("draw", "ax:r2_text", 14),                                  \* 371-373  except 374
       S("style", "tight_layout"),                                   \* 377
       S("savefig", "fig2_rate_efficiency_scientific.pdf"),          \* 378
       S("close", "") >>                                             \* 379

(* lines 381-434 *)
create_fig4_temperature_sensitivity ==
    << S("data", ""),                                                \* 384-397
       S("subplots", "fig"),                                         \* 399
       S("draw", "ax:bars"),                                         \* 401-404
       S("draw", "ax:halaburka_baseline"),                           \* 408-409
       S("draw", "ax:value_labels"),                                 \* 412-418
       S("style", "labels"),                                         \* 421-428
       S("legend", "ax"),                                            \* 430
       S("style", "tight_layout"),                                   \* 432
       S("savefig", "fig4_temperature_scientific.pdf"),              \* 433
       S("close", "") >>                                             \* 434

(* lines 436-594 *)
create_fig12_decision_framework ==
    << S("subplots", "fig"),                                         \* 439-442
       S("data", ""),                                                \* 445-452
       S("draw", "ax:flowchart"),                                    \* 455-578
       S("legend", "ax"),                                            \* 581-590
       S("style", "tight_layout"),                                   \* 592
       S("savefig", "fig12_decision_framework_scientific.pdf"),      \* 593
       S("close", "") >>                                             \* 594

(* create_fig6_greenhouse_gas with the polynomial fit wrapped in try/except *)
create_fig6_polyfit_guarded ==
    << S("data", ""), S("subplots", "fig"), S("draw", "ax1:n2o_errorbar"),
       S("draw", "ax1:optimal_band"), S("legend", "ax1"),
       T("fit", "n2o_poly", 8), T("draw", "ax1:n2o_trend", 8),
       S("draw", "ax2:ch4_errorbar"), S("draw", "ax2:optimal_band"), S("legend", "ax2"),
       T("fit", "ch4_exp", 13), T("draw", "ax2:ch4_trend", 13),
       S("style", "tight_layout"), S("savefig", "fig6_greenhouse_gas_scientific.pdf"),
       S("close", "") >>

(* lines 596-669 *)
create_fig6_greenhouse_gas ==
    << S("data", ""),                                                \* 598-610
       S("subplots", "fig"),                                         \* 612
       S("draw", "ax1:n2o_errorbar"),                                \* 615-625
       S("draw", "ax1:optimal_band"),                                \* 628
       S("legend", "ax1"),                                           \* 630
       S("fit", "n2o_poly"),                                         \* 633-635  np.polyfit, no try
       S("draw", "ax1:n2o_trend"),                                   \* 636
       S("draw", "ax2:ch4_errorbar"),                                \* 639-649
       S("draw", "ax2:optimal_band"),                                \* 652
       S("legend", "ax2"),                                           \* 654
       T("fit", "ch4_exp", 13),                                      \* 657-662  try 660
       T("draw", "ax2:ch4_trend", 13),                               \* 663      except 664
       S("style", "tight_layout"),                                   \* 667
       S("savefig", "fig6_greenhouse_gas_scientific.pdf"),           \* 668
       S("close", "") >>                                             \* 669

(* lines 671-724 *)
create_fig7_phosphorus_removal ==
    << S("data", ""),                                                \* 673-683, 700
       S("subplots", "fig"),                                         \* 685
       S("draw", "ax:bars"),                                         \* 687-697
       S("draw", "ax:count_labels"),                                 \* 701-704
       S("style", "labels"),                                         \* 707-712
       S("legend", "ax"),                                            \* 714
       S("style", "limits"),                                         \* 715-716
       S("draw", "ax:zero_line"),                                    \* 719-720
       S("style", "tight_layout"),                                   \* 722
       S("savefig", "fig7_phosphorus_scientific.pdf"),               \* 723
       S("close", "") >>                                             \* 724

(* create_fig8_doc_leaching returning without plt.close() *)
create_fig8_no_close ==
    << S("data", ""), S("subplots", "fig"), S("draw", "ax:bars"), S("style", "labels"),
       S("legend", "ax"), S("style", "limits"), S("draw", "ax:natural_doc_band"),
       T("fit", "woodchips", 10), T("draw", "ax:trend_woodchips", 10),
       T("fit", "corn_cobs", 12), T("draw", "ax:trend_corn_cobs", 12),
       T("fit", "cereal_straws", 14), T("draw", "ax:trend_cereal_straws", 14),
       T("fit", "pre_leached", 16), T("draw", "ax:trend_pre_leached", 16),
       T("fit", "composted_chips", 18), T("draw", "ax:trend_composted_chips", 18),
       S("style", "tight_layout"), S("savefig", "fig8_doc_leaching_scientific.pdf") >>

(* lines 726-804; the loop of lines 794-800 is unrolled over data_sets *)
create_fig8_doc_leaching ==
    << S("data", ""),                                                \* 728-747, 785-792
       S("subplots", "fig"),                                         \* 749
       S("draw", "ax:bars"),                                         \* 752-766
       S("style", "labels"),                                         \* 769-774
       S("legend", "ax"),                                            \* 776
       S("style", "limits"),                                         \* 777-778
       S("draw", "ax:natural_doc_band"),                             \* 781-782
       T("fit", "woodchips", 10),                                    \* 796-797  try 795
       T("draw", "ax:trend_woodchips", 10),                          \* 798      except 799
       T("fit", "corn_cobs", 12),
       T("draw", "ax:trend_corn_cobs", 12),
       T("fit", "cereal_straws", 14),
       T("draw", "ax:trend_cereal_straws", 14),
       T("fit", "pre_leached", 16),
       T("draw", "ax:trend_pre_leached", 16),
       T("fit", "composted_chips", 18),
       T("draw", "ax:trend_composted_chips", 18),
       S("style", "tight_layout"),                                   \* 802
       S("savefig", "fig8_doc_leaching_scientific.pdf"),             \* 803
       S("close", "") >>                                             \* 804

(* lines 806-865 *)
create_fig3_hydraulic_performance ==
    << S("data", ""),                                                \* 810-815
       S("subplots", "fig"),                                         \* 817
       S("draw", "ax1:conductivity_bars"),                           \* 820-823
       S("draw", "ax1:value_labels"),                                \* 826-830
       S("style", "labels"),                                         \* 832-838
       S("draw", "ax2:dosing_bars"),                                 \* 841-842
       S("draw", "ax2:value_labels"),                                \* 845-853
       S("style", "tight_layout"),                                   \* 855-863
       S("savefig", "fig3_hydraulic_performance_scientific.pdf"),    \* 864
       S("close", "") >>                                             \* 865

(* create_fig5_cost_analysis saving under the name of figure 4 *)
create_fig5_wrong_path ==
    << S("data", ""), S("subplots", "fig"), S("draw", "ax:cost_bars"),
       S("draw", "ax:cost_labels"), S("style", "labels"), S("legend", "ax"),
       S("style", "limits"), S("draw", "ax:standardization_note"),
       S("style", "tight_layout"), S("savefig", "fig4_temperature_scientific.pdf"),
       S("close", "") >>

(* lines 867-923 *)
create_fig5_cost_analysis ==
    << S("data", ""),                                                \* 874-887
       S("subplots", "fig"),                                         \* 889
       S("draw", "ax:cost_bars"),                                    \* 892-897
       S("draw", "ax:cost_labels"),                                  \* 900-904
       S("style", "labels"),                                         \* 906-911
       S("legend", "ax"),                                            \* 912
       S("style", "limits"),                                         \* 913-914
       S("draw", "ax:standardization_note"),                         \* 917-919
       S("style", "tight_layout"),                                   \* 921
       S("savefig", "fig5_cost_analysis.pdf"),                       \* 922
       S("close", "") >>                                             \* 923

(* lines 925-999 *)
create_fig9_wood_species_comparison ==
    << S("data", ""),                                                \* 929-941, 945
       S("subplots", "fig"),                                         \* 943
       S("draw", "ax1:removal_bars"),                                \* 948-960
       S("draw", "ax2:n2o_bars"),                                    \* 963-975
       S("draw", "ax2:commercial_baseline"),                         \* 976
       S("draw", "ax3:p_bars"),                                      \* 979-991
       S("style", "tight_layout"),                                   \* 994-997
       S("savefig", "fig9_wood_species_comparison_scientific.pdf"),  \* 998
       S("close", "") >>                                             \* 999

(* lines 1001-1062 *)
create_fig10_temperature_modeling ==
    << S("data", ""),                                                \* 1005-1019
       S("subplots", "fig"),                                         \* 1021
       S("draw", "ax1:arrhenius_model"),                             \* 1024
       S("draw", "ax1:experimental_data"),                           \* 1025-1031
       S("legend", "ax1"),                                           \* 1032
       S("draw", "ax1:r2_text"),                                     \* 1033-1040
       S("draw", "ax2:doc_model"),                                   \* 1043
       S("draw", "ax2:doc_experimental"),                            \* 1044-1049
       S("legend", "ax2"),                                           \* 1050
       S("draw", "ax2:r2_text"),                                     \* 1051-1058
       S("style", "tight_layout"),                                   \* 1060
       S("savefig", "fig10_temperature_modeling_scientific.pdf"),    \* 1061
       S("close", "") >>                                             \* 1062

Body(r) ==
    CASE r = "create_synthesis_diagram_enhancement_pathways" ->
             create_synthesis_diagram_enhancement_pathways
      [] r = "create_meta_analysis_performance_plot" -> create_meta_analysis_performance_plot
      [] r = "create_fig1_removal_rates_by_strategy" -> create_fig1_removal_rates_by_strategy
      [] r = "create_fig2_rate_vs_efficiency" -> create_fig2_rate_vs_efficiency
      [] r = "create_fig4_temperature_sensitivity" -> create_fig4_temperature_sensitivity
      [] r = "create_fig12_decision_framework" -> create_fig12_decision_framework
      [] r = "create_fig6_greenhouse_gas" -> create_fig6_greenhouse_gas
      [] r = "create_fig7_phosphorus_removal" -> create_fig7_phosphorus_removal
      [] r = "create_fig8_doc_leaching" -> create_fig8_doc_leaching
      [] r = "create_fig3_hydraulic_performance" -> create_fig3_hydraulic_performance
      [] r = "create_fig5_cost_analysis" -> create_fig5_cost_analysis
      [] r = "create_fig9_wood_species_comparison" -> create_fig9_wood_species_comparison
      [] r = "create_fig10_temperature_modeling" -> create_fig10_temperature_modeling

(***************************************************************************)
(* The driver, lines 1065-1126, and the script entry, lines 1129-1130.     *)
(***************************************************************************)
P(line) == [k |-> "print", a |-> line]
C(r) == [k |-> "call", a |-> r]

(* The driver calling figure 5 in numeric order, before figure 6 *)
generate_all_numeric_order ==
    << P("Generating enhanced scientific figures with verified literature data..."),
       P("Creating Figure 1: Removal rates by strategy..."),
       C("create_fig1_removal_rates_by_strategy"),
       P("Creating Figure 2: Rate vs efficiency analysis..."),
       C("create_fig2_rate_vs_efficiency"),
       P("Creating Figure 3: Hydraulic performance with carbon dosing..."),
       C("create_fig3_hydraulic_performance"),
       P("Creating Figure 4: Temperature sensitivity analysis..."),
       C("create_fig4_temperature_sensitivity"),
       P("Creating Figure 5: Cost analysis comparison..."),
       C("create_fig5_cost_analysis"),
       P("Creating Figure 6: Greenhouse gas emissions..."),
       C("create_fig6_greenhouse_gas"),
       P("Creating Figure 7: Phosphorus removal performance..."),
       C("create_fig7_phosphorus_removal"),
       P("Creating Figure 8: DOC leaching patterns..."),
       C("create_fig8_doc_leaching"),
       P("Creating Figure 9: Wood species comparison..."),
       C("create_fig9_wood_species_comparison"),
       P("Creating Figure 10: Temperature modeling results..."),
       C("create_fig10_temperature_modeling"),
       P("Creating advanced synthesis visualizations..."),
       P("Creating synthesis diagram: Enhancement pathways framework..."),
       C("create_synthesis_diagram_enhancement_pathways"),
       P("Creating meta-analysis plot: Performance across studies..."),
       C("create_meta_analysis_performance_plot"),
       P("All enhanced scientific figures generated successfully as PDFs!"),
       P("Figures created:") >>

(* The driver announcing success before its first call *)
generate_all_success_first ==
    <<P("All enhanced scientific figures generated successfully as PDFs!")>>
        \o generate_all_numeric_order

generate_all_scientific_figures ==
    << P("Generating enhanced scientific figures with verified literature data..."),
       P("Creating Figure 1: Removal rates by strategy..."),
       C("create_fig1_removal_rates_by_strategy"),
       P("Creating Figure 2: Rate vs efficiency analysis..."),
       C("create_fig2_rate_vs_efficiency"),
       P("Creating Figure 3: Hydraulic performance with carbon dosing..."),
       C("create_fig3_hydraulic_performance"),
       P("Creating Figure 4: Temperature sensitivity analysis..."),
       C("create_fig4_temperature_sensitivity"),
       P("Creating Figure 6: Greenhouse gas emissions..."),
       C("create_fig6_greenhouse_gas"),
       P("Creating Figure 7: Phosphorus removal performance..."),
       C("create_fig7_phosphorus_removal"),
       P("Creating Figure 8: DOC leaching patterns..."),
       C("create_fig8_doc_leaching"),
       P("Creating Figure 9: Wood species comparison..."),
       C("create_fig9_wood_species_comparison"),
       P("Creating Figure 10: Temperature modeling results..."),
       C("create_fig10_temperature_modeling"),
       P("Creating Figure 5: Cost analysis comparison..."),
       C("create_fig5_cost_analysis"),
       P("Creating advanced synthesis visualizations..."),
       P("Creating synthesis diagram: Enhancement pathways framework..."),
       C("create_synthesis_diagram_enhancement_pathways"),
       P("Creating meta-analysis plot: Performance across studies..."),
       C("create_meta_analysis_performance_plot"),
       P("All enhanced scientific figures generated successfully as PDFs!"),
       P("Figures created:"),
       P("* Figure 1: Enhancement strategy performance comparison"),
       P("* Figure 2: Rate vs efficiency by experimental scale"),
       P("* Figure 3: Hydraulic performance impacts of carbon dosing"),
       P("* Figure 4: Temperature sensitivity (Q10 coefficients)"),
       P("* Figure 6: Greenhouse gas emissions vs HRT"),
       P("* Figure 7: Phosphorus removal by media type"),
       P("* Figure 8: DOC leaching over time"),
       P("* Figure 9: Wood species performance comparison"),
       P("* Figure 10: Temperature dependence modeling") >>


(***************************************************************************)
(* The state machine                                                       *)
(***************************************************************************)
NoErr == [r |-> "none", step |-> 0]
NoData == [none |-> <<>>]

Event(e, a) == [e |-> e, a |-> a]

Init ==
    /\ mode \in {"driver", "free"}
    /\ status = "running"
    /\ dpc = 1
    /\ cur = "none"
    /\ rpc = 0
    /\ locals = NoData
    /\ figs = <<>>
    /\ files = [p \in {} |-> {}]
    /\ trace = <<>>
    /\ calls = [r \in Routines |-> 0]
    /\ ev = <<>>
    /\ caught = {}
    /\ rets = <<>>
    /\ err = NoErr
    /\ faults = 0
    /\ rc = rcParams
    /\ palette = colors_scientific

Idle == status = "running" /\ cur = "none"
NCalls == Cardinality({i \in DOMAIN trace : trace[i].e = "call"})

(* A call of routine r: a fresh frame *)
Enter(r) ==
    /\ cur' = r
    /\ rpc' = 1
    /\ locals' = NoData
    /\ ev' = <<>>
    /\ caught' = {}
    /\ calls' = [calls EXCEPT ![r] = @ + 1]
    /\ trace' = Append(trace, Event("call", r))

(* The driver's print statements, lines 1077-1126 *)
DriverPrint ==
    /\ mode = "driver" /\ Idle
    /\ dpc <= Len(generate_all_scientific_figures)
    /\ generate_all_scientific_figures[dpc].k = "print"
    /\ trace' = Append(trace, Event("print", generate_all_scientific_figures[dpc].a))
    /\ dpc' = dpc + 1
    /\ UNCHANGED <<rc, palette, mode, status, cur, rpc, locals, figs, files, calls, ev, caught, rets,
                   err, faults>>

(* The driver's calls, lines 1080-1114 *)
DriverCall ==
    /\ mode = "driver" /\ Idle
    /\ dpc <= Len(generate_all_scientific_figures)
    /\ generate_all_scientific_figures[dpc].k = "call"
    /\ Enter(generate_all_scientific_figures[dpc].a)
    /\ UNCHANGED <<rc, palette, mode, status, dpc, figs, files, rets, err, faults>>

(* The driver returns after its last statement, line 1126 *)
DriverFinish ==
    /\ mode = "driver" /\ Idle
    /\ dpc = Len(generate_all_scientific_figures) + 1
    /\ status' = "done"
    /\ UNCHANGED <<rc, palette, mode, dpc, cur, rpc, locals, figs, files, trace, calls, ev, caught,
                   rets, err, faults>>

(* Any caller of the module invoking a routine directly *)
Invoke(r) ==
    /\ mode = "free" /\ Idle
    /\ NCalls < MaxCalls
    /\ Enter(r)
    /\ UNCHANGED <<rc, palette, mode, status, dpc, figs, files, rets, err, faults>>

At(kind) ==
    /\ status = "running"
    /\ cur # "none"
    /\ rpc <= Len(Body(cur))
    /\ Body(cur)[rpc].k = kind

Arg == Body(cur)[rpc].a

Canvas == IF Len(figs) = 0 THEN {} ELSE figs[Len(figs)]

(* The literal assignments *)
ExecData ==
    /\ At("data")
    /\ locals' = Data(cur)
    /\ rpc' = rpc + 1
    /\ UNCHANGED <<rc, palette, mode, status, dpc, cur, figs, files, trace, calls, ev, caught, rets,
                   err, faults>>

(* plt.subplots(): a new figure, which becomes the current one *)
ExecSubplots ==
    /\ At("subplots")
    /\ figs' = Append(figs, {})
    /\ ev' = Append(ev, Event("open", Arg))
    /\ rpc' = rpc + 1
    /\ UNCHANGED <<rc, palette, mode, status, dpc, cur, locals, files, trace, calls, caught, rets,
                   err, faults>>

(* Plotting calls draw on the current figure *)
AddToCanvas(el) ==
    IF Len(figs) = 0 THEN <<{el}>> ELSE [figs EXCEPT ![Len(figs)] = @ \cup {el}]

(* A plotting call that takes its colour off the front of the shared palette *)
ExecDrawPopsColour ==
    /\ At("draw")
    /\ figs' = AddToCanvas(Arg)
    /\ rpc' = rpc + 1
    /\ palette' = IF cur \in UsesPalette /\ Len(palette) > 1 THEN Tail(palette) ELSE palette
    /\ UNCHANGED <<rc, mode, status, dpc, cur, locals, files, trace, calls, ev, caught, rets,
                   err, faults>>

ExecDraw ==
    /\ At("draw")
    /\ figs' = AddToCanvas(Arg)
    /\ rpc' = rpc + 1
    /\ UNCHANGED <<rc, palette, mode, status, dpc, cur, locals, files, trace, calls, ev, caught, rets,
                   err, faults>>

(* ax.legend(): the legend of the axes named by the step *)
ExecLegend ==
    /\ At("legend")
    /\ figs' = AddToCanvas(Arg)
    /\ rpc' = rpc + 1
    /\ UNCHANGED <<rc, palette, mode, status, dpc, cur, locals, files, trace, calls, ev, caught, rets,
                   err, faults>>

(* A styling step that sets the font size in plt.rcParams *)
ExecStyleSetsRc ==
    /\ At("style")
    /\ rpc' = rpc + 1
    /\ rc' = [rc EXCEPT !.font_size = 10]
    /\ UNCHANGED <<palette, mode, status, dpc, cur, locals, figs, files, trace, calls, ev, caught,
                   rets, err, faults>>

(* Labels, ticks, limits, grid, tight_layout: no element is added *)
ExecStyle ==
    /\ At("style")
    /\ rpc' = rpc + 1
    /\ UNCHANGED <<rc, palette, mode, status, dpc, cur, locals, figs, files, trace, calls, ev, caught,
                   rets, err, faults>>

(* curve_fit / np.polyfit returning normally: the parameters are bound *)
ExecFit ==
    /\ At("fit")
    /\ rpc' = rpc + 1
    /\ UNCHANGED <<rc, palette, mode, status, dpc, cur, locals, figs, files, trace, calls, ev, caught,
                   rets, err, faults>>

(* stats.pearsonr returning normally *)
ExecCorr ==
    /\ At("corr")
    /\ rpc' = rpc + 1
    /\ UNCHANGED <<rc, palette, mode, status, dpc, cur, locals, figs, files, trace, calls, ev, caught,
                   rets, err, faults>>

(* The keyword arguments of each routine's savefig call; dpi 0 and bbox "" *)
(* stand for an argument that is not given                                 *)
SavefigArgs(r) ==
    IF r \in { "create_synthesis_diagram_enhancement_pathways",
               "create_meta_analysis_performance_plot" }
    THEN [dpi |-> 0, bbox |-> "tight"]      \* lines 132, 225
    ELSE [dpi |-> 300, bbox |-> "tight"]    \* lines 288, 378, ...

(* The three-letter extension of a path, "" when it has none *)
Ext(path) ==
    IF Len(path) > 4 /\ SubSeq(path, Len(path) - 3, Len(path) - 3) = "."
    THEN SubSeq(path, Len(path) - 2, Len(path))
    ELSE ""

(* What savefig writes: the elements of the current figure, drawn from the *)
(* routine's datasets and rendered under the style configuration, in the   *)
(* format of the path's extension (the configured format when it has       *)
(* none), at the resolution and bounding box of the call's arguments (the  *)
(* configured ones when not given)                                         *)
Content(r, path) ==
    [ els |-> Canvas,
      data |-> locals,
      format |-> IF Ext(path) # "" THEN Ext(path) ELSE rc.savefig_format,
      dpi |-> IF SavefigArgs(r).dpi # 0 THEN SavefigArgs(r).dpi ELSE rc.savefig_dpi,
      bbox |-> IF SavefigArgs(r).bbox # "" THEN SavefigArgs(r).bbox ELSE rc.savefig_bbox,
      style |-> rc,
      colors |-> IF r \in UsesPalette THEN palette ELSE <<>> ]

(* savefig keeping an existing file and writing beside it *)
WrittenBeside(path, content) ==
    IF path \in DOMAIN files
    THEN [q \in (DOMAIN files) \cup {"copy of " \o path} |->
              IF q = "copy of " \o path THEN content ELSE files[q]]
    ELSE [q \in (DOMAIN files) \cup {path} |-> IF q = path THEN content ELSE files[q]]

(* plt.savefig(path): the current figure is written to path, replacing the file *)
Written(path, content) ==
    [q \in (DOMAIN files) \cup {path} |-> IF q = path THEN content ELSE files[q]]

ExecSavefig ==
    /\ At("savefig")
    /\ files' = Written(Arg, Content(cur, Arg))
    /\ ev' = Append(ev, Event("save", Arg))
    /\ rpc' = rpc + 1
    /\ UNCHANGED <<rc, palette, mode, status, dpc, cur, locals, figs, trace, calls, caught, rets,
                   err, faults>>

(* plt.close(): closes the current figure *)
ExecClose ==
    /\ At("close")
    /\ figs' = IF Len(figs) = 0 THEN figs ELSE SubSeq(figs, 1, Len(figs) - 1)
    /\ ev' = Append(ev, Event("close", Arg))
    /\ rpc' = rpc + 1
    /\ UNCHANGED <<rc, palette, mode, status, dpc, cur, locals, files, trace, calls, caught, rets,
                   err, faults>>

(* print() inside a routine, lines 134 and 227 *)
ExecPrint ==
    /\ At("print")
    /\ trace' = Append(trace, Event("print", Arg))
    /\ rpc' = rpc + 1
    /\ UNCHANGED <<rc, palette, mode, status, dpc, cur, locals, figs, files, calls, ev, caught, rets,
                   err, faults>>

(* The content of the file the invocation saved, {} if it saved none *)
Saved(events) == {events[i].a : i \in {j \in DOMAIN events : events[j].e = "save"}}

(* The routine falls off its last statement and returns to its caller *)
Return ==
    /\ status = "running"
    /\ cur # "none"
    /\ rpc = Len(Body(cur)) + 1
    /\ trace' = Append(trace, Event("return", cur))
    /\ rets' = Append(rets, [r |-> cur, ev |-> ev, caught |-> caught,
                             content |-> {files[p] : p \in Saved(ev)}])
    /\ cur' = "none"
    /\ rpc' = 0
    /\ locals' = NoData
    /\ ev' = <<>>
    /\ caught' = {}
    /\ dpc' = IF mode = "driver" THEN dpc + 1 ELSE dpc
    /\ UNCHANGED <<rc, palette, mode, status, figs, files, calls, err, faults>>

(* Raise with a driver that catches the exception of a routine and goes on *)
RaiseAndContinue ==
    /\ status = "running"
    /\ cur # "none"
    /\ rpc <= Len(Body(cur))
    /\ faults < MaxFaults
    /\ faults' = faults + 1
    /\ IF Body(cur)[rpc].h # 0
       THEN /\ caught' = caught \cup {rpc}
            /\ rpc' = Body(cur)[rpc].h
            /\ UNCHANGED <<err, cur, dpc>>
       ELSE /\ err' = [r |-> cur, step |-> rpc]
            /\ cur' = "none"
            /\ rpc' = 0
            /\ dpc' = dpc + 1
            /\ UNCHANGED caught
    /\ UNCHANGED <<rc, palette, mode, status, locals, figs, files, trace, calls, ev, rets>>

(***************************************************************************)
(* The current step raises.  Inside a try block the bare except swallows   *)
(* the exception and execution continues after the block (lines 343-344,   *)
(* 353-354, 374-375, 664-665, 799-800).  Elsewhere the exception leaves    *)
(* the routine; neither the driver (lines 1065-1126) nor the script entry  *)
(* (lines 1129-1130) has a handler, so the run ends there.                 *)
(***************************************************************************)
Raise ==
    /\ status = "running"
    /\ cur # "none"
    /\ rpc <= Len(Body(cur))
    /\ faults < MaxFaults
    /\ faults' = faults + 1
    /\ IF Body(cur)[rpc].h # 0
       THEN /\ caught' = caught \cup {rpc}
            /\ rpc' = Body(cur)[rpc].h
            /\ UNCHANGED <<status, err>>
       ELSE /\ err' = [r |-> cur, step |-> rpc]
            /\ status' = "aborted"
            /\ UNCHANGED <<caught, rpc>>
    /\ UNCHANGED <<rc, palette, mode, dpc, cur, locals, figs, files, trace, calls, ev, rets>>

Next ==
    \/ DriverPrint
    \/ DriverCall
    \/ DriverFinish
    \/ \E r \in Routines : Invoke(r)
    \/ ExecData
    \/ ExecSubplots
    \/ ExecDraw
    \/ ExecLegend
    \/ ExecStyle
    \/ ExecFit
    \/ ExecCorr
    \/ ExecSavefig
    \/ ExecClose
    \/ ExecPrint
    \/ Return
    \/ Raise

Spec == Init /\ [][Next]_vars

(***************************************************************************)
(* Cost standardization of create_fig5_cost_analysis, lines 870-881        *)
(***************************************************************************)
(* CPI factor of a source year to 2023 USD, in thousandths; line 872.  The *)
(* sources dated 2023 are "already 2023 USD" (lines 878-880).              *)
Deflator(year) ==
    CASE year = 2018 -> 1201
      [] year = 2019 -> 1165
      [] year = 2020 -> 1139
      [] year = 2023 -> 1000
      [] year = 2024 -> 985

(* The published values the comments of lines 878-881 document: the        *)
(* series and index of the bar, the raw value and the year of its source   *)
RawCosts ==
    { [series |-> "typical_cost", i |-> 1, raw |-> 33000, year |-> 2023],
      [series |-> "low_cost",     i |-> 2, raw |-> 10560, year |-> 2023],
      [series |-> "high_cost",    i |-> 2, raw |-> 13890, year |-> 2023],
      [series |-> "low_cost",     i |-> 3, raw |-> 22410, year |-> 2023],
      [series |-> "high_cost",    i |-> 3, raw |-> 60130, year |-> 2023],
      [series |-> "typical_cost", i |-> 4, raw |-> 86000, year |-> 2024] }

(* raw * factor, in thousandths of a dollar *)
Standardized(raw, year) == (raw * Deflator(year)) \div 1000

(***************************************************************************)
(* Reference lines, bands and error bars drawn from literals, thousandths  *)
(***************************************************************************)
(* ax1.axvline(x=6.0, label='Control Mean ...'); line 177 *)
control_mean_line == 6000

(* ax1.axvspan(4.0, 8.0, label='Control 95% CI range'); line 178 *)
control_ci_band == [lo |-> 4000, hi |-> 8000]

(* ax.axhline(y=2.0, label='Halaburka baseline Q10 = 2.0 (theta=1.16 ...)'); lines 407-409 *)
halaburka_baseline == 2000

(* xerr=[abs(u-l) for u, l in zip(ci_upper, ci_lower)]; line 197 *)
xerr(ci_upper, ci_lower) ==
    [ i \in 1..(IF Len(ci_upper) < Len(ci_lower) THEN Len(ci_upper) ELSE Len(ci_lower)) |->
        IF ci_upper[i] >= ci_lower[i] THEN ci_upper[i] - ci_lower[i]
        ELSE ci_lower[i] - ci_upper[i] ]

(* ax2.errorbar(x, y, xerr=e): the horizontal bar runs from x - e to x + e; line 197 *)
ErrorBar(x, e) == [lo |-> x - e, hi |-> x + e]

(* The second bars drawn from zero instead of on top of the first *)
Unstacked(bottom, heights) == heights

(* ax.bar(x_pos, field_rates, bottom=lab_rates): the tops of the stacked bars; line 259 *)
StackTop(bottom, heights) == [i \in DOMAIN heights |-> bottom[i] + heights[i]]

(* height = rate + std_devs[i]; ax.text(i, height + 1.5, ...); lines 267-268 *)
CountLabelAt(rate, std) == rate + std + 1500

(***************************************************************************)
(* The names a step inside a try block binds and the names it reads:       *)
(* create_fig2_rate_vs_efficiency lines 330-342, 348-352, 369-373;         *)
(* create_fig8_doc_leaching lines 796-798                                  *)
(***************************************************************************)
Binds(step) ==
    CASE step.k = "fit" /\ step.a = "lab" -> {"popt_lab", "y_lab_fit", "std_error"}
      [] step.k = "fit" /\ step.a = "field" -> {"popt_field", "y_field_fit"}
      [] step.k = "corr" /\ step.a = "r2" -> {"r2_lab", "r2_field"}
      [] step.k = "fit" /\ step.a \in {"woodchips", "corn_cobs", "cereal_straws",
                                       "pre_leached", "composted_chips"} -> {"popt", "y_trend"}
      [] OTHER -> {}

Reads(step) ==
    CASE step.a = "ax:lab_trend" -> {"popt_lab", "y_lab_fit"}
      [] step.a = "ax:lab_band" -> {"y_lab_fit", "std_error"}
      [] step.a = "ax:field_trend" -> {"popt_field", "y_field_fit"}
      [] step.a = "ax:r2_text" -> {"r2_lab", "r2_field"}
      [] step.a \in {"ax:trend_woodchips", "ax:trend_corn_cobs", "ax:trend_cereal_straws",
                     "ax:trend_pre_leached", "ax:trend_composted_chips"} -> {"y_trend"}
      [] OTHER -> {}

(***************************************************************************)
(* The axis limits a routine fixes with set_xlim / set_ylim and the series *)
(* drawn along that axis: the series v, its error series e ("" when it is  *)
(* drawn without error bars) and the limits lo, hi in thousandths.         *)
(***************************************************************************)
L(v, e, lo, hi) == [v |-> v, e |-> e, lo |-> lo, hi |-> hi]

AxisLimits(r) ==
    CASE r = "create_synthesis_diagram_enhancement_pathways" ->
             { L("years", "", 1995000, 2030000) }                          \* 92-98
      [] r = "create_fig1_removal_rates_by_strategy" ->
             { L("rates", "std_devs", 0, 45000) }                          \* 262, 280
      [] r = "create_fig2_rate_vs_efficiency" ->
             { L("lab_rates", "", 0, 50000),                               \* 309-320, 364
               L("pilot_rates", "", 0, 50000),
               L("field_rates", "", 0, 50000),
               L("lab_efficiency", "", 0, 100000),                         \* 365
               L("pilot_efficiency", "", 0, 100000),
               L("field_efficiency", "", 0, 100000) }
      [] r = "create_fig4_temperature_sensitivity" ->
             { L("q10_values", "q10_errors", 1400, 3400) }                 \* 402, 427
      [] r = "create_fig6_greenhouse_gas" ->
             { L("hrt_hours", "", 0, 32000),                               \* 624, 648
               L("n2o_emissions", "n2o_error", 0, 1400),                   \* 615, 625
               L("ch4_emissions", "ch4_error", 0, 1100) }                  \* 639, 649
      [] r = "create_fig7_phosphorus_removal" ->
             { L("startup_removal", "startup_error", -50000, 95000),       \* 686, 716
               L("steady_removal", "steady_error", -50000, 95000) }        \* 690
      [] r = "create_fig8_doc_leaching" ->
             { L("woodchips", "woodchips_err", 0, 150000),                 \* 752-766, 778
               L("corn_cobs", "corn_cobs_err", 0, 150000),
               L("cereal_straws", "cereal_straws_err", 0, 150000),
               L("pre_leached", "pre_leached_err", 0, 150000),
               L("composted_chips", "composted_chips_err", 0, 150000) }
      [] r = "create_fig3_hydraulic_performance" ->
             { L("hydraulic_conductivity", "error_bars", 0, 6000000),      \* 820, 838
               L("carbon_rates", "", 0, 12000) }                           \* 841, 861
      [] r = "create_fig5_cost_analysis" ->
             { L("low_cost", "", 0, 100000),                               \* 892-897, 914
               L("typical_cost", "", 0, 100000),
               L("high_cost", "", 0, 100000) }
      [] r = "create_fig9_wood_species_comparison" ->
             { L("nitrate_removal", "removal_error", 0, 18000),            \* 947, 960
               L("n2o_production", "n2o_error", 0, 1500),                  \* 963, 975
               L("p_leaching", "p_error", 0, 4000) }                       \* 979, 991
      [] r = "create_fig10_temperature_modeling" ->
             { L("temperatures", "", 0, 32000),                            \* 1034, 1052
               L("exp_temps", "", 0, 32000),
               L("doc_exp_temps", "", 0, 32000),
               L("modeled_rates", "", 0, 15000),                           \* 1024, 1035
               L("exp_rates", "exp_errors", 0, 15000),                     \* 1025
               L("doc_rates", "", 0, 25000),                               \* 1042, 1053
               L("doc_exp_values", "", 0, 25000) }                         \* 1043
      [] OTHER -> {}

(***************************************************************************)
(* The grouped bars of create_fig5_cost_analysis and their value labels    *)
(***************************************************************************)
(* The labels taken from the cost lists in another order than the bars *)
label_costs_swapped == <<"low_cost", "high_cost", "typical_cost">>

(* bars1, bars2, bars3: the series each group of bars is drawn from; lines 892-897 *)
bar_costs == <<"low_cost", "typical_cost", "high_cost">>

(* The list zipped with [bars1, bars2, bars3] in the label loop; line 900 *)
label_costs == <<"low_cost", "typical_cost", "high_cost">>

(* The digits after the decimal point of a value in thousandths, without *)
(* trailing zeros                                                        *)
Fraction(f) ==
    IF f % 100 = 0 THEN ToString(f \div 100)
    ELSE IF f % 10 = 0
         THEN (IF f < 100 THEN "0" ELSE "") \o ToString(f \div 10)
         ELSE (IF f < 10 THEN "00" ELSE IF f < 100 THEN "0" ELSE "") \o ToString(f)

(* f'${cost}': a whole literal prints as written (33), a decimal literal *)
(* with its decimals (12.2); line 904                                    *)
CostLabel(cost) ==
    "$" \o ToString(cost \div 1000)
        \o (IF cost % 1000 = 0 THEN "" ELSE "." \o Fraction(cost % 1000))

(* The label of bar i of group k: its text and the height it is anchored *)
(* at, bar.get_height() + 1; lines 900-904                               *)
BarLabel(data, k, i) ==
    [ text |-> CostLabel(data[label_costs[k]][i]),
      at |-> data[bar_costs[k]][i] + 1000 ]

(***************************************************************************)
(* Legends.  The elements a routine draws with a label= argument, and the  *)
(* axes an element is drawn on (the part of its name before the colon).    *)
(* ax.legend() shows the labelled elements its axes hold when it is called. *)
(***************************************************************************)
Labelled(r) ==
    CASE r = "create_meta_analysis_performance_plot" ->
             {"ax1:control_mean_line", "ax1:control_ci_band", "ax2:size_handles"} \* 177, 178, 219
      [] r = "create_fig1_removal_rates_by_strategy" ->
             {"ax:lab_bars", "ax:field_bars"}                              \* 258, 259
      [] r = "create_fig2_rate_vs_efficiency" ->
             {"ax:scatter", "ax:lab_trend", "ax:field_trend"}              \* 310-318, 340, 352
      [] r = "create_fig4_temperature_sensitivity" ->
             {"ax:halaburka_baseline"}                                     \* 409
      [] r = "create_fig6_greenhouse_gas" ->
             {"ax1:optimal_band", "ax2:optimal_band"}                      \* 628, 652
      [] r = "create_fig7_phosphorus_removal" -> {"ax:bars"}               \* 688, 692
      [] r = "create_fig8_doc_leaching" ->
             {"ax:bars", "ax:natural_doc_band"}                            \* 753-765, 782
      [] r = "create_fig5_cost_analysis" -> {"ax:cost_bars"}               \* 892-896
      [] r = "create_fig9_wood_species_comparison" ->
             {"ax2:commercial_baseline"}                                   \* 976
      [] r = "create_fig10_temperature_modeling" ->
             {"ax1:arrhenius_model", "ax1:experimental_data",              \* 1024, 1026
              "ax2:doc_model", "ax2:doc_experimental"}                     \* 1043, 1045
      [] OTHER -> {}

AxesOf(el) == IF SubSeq(el, 3, 3) = ":" THEN SubSeq(el, 1, 2) ELSE SubSeq(el, 1, 3)

(* The labelled elements the legend built at step l of routine r shows, *)
(* the elements on canvas being those drawn so far                      *)
LegendEntries(r, l, canvas) ==
    { Body(r)[j].a : j \in { i \in 1..(l - 1) :
          /\ Body(r)[i].k = "draw"
          /\ Body(r)[i].a \in Labelled(r)
          /\ Body(r)[i].a \in canvas
          /\ AxesOf(Body(r)[i].a) = Body(r)[l].a } }

(***************************************************************************)
(* Properties                                                              *)
(***************************************************************************)
IsCall(x) == x.e = "call"
IsSave(x) == x.e = "save"
CallsOf(t) == SelectSeq(t, IsCall)
SavesOf(events) == SelectSeq(events, IsSave)
Kinds(events) == [i \in DOMAIN events |-> events[i].e]
RoundTo(x, unit) == ((x + unit \div 2) \div unit) * unit

(* The order of the calls the driver is documented to make *)
ClaimedOrder ==
    << "create_fig1_removal_rates_by_strategy",
       "create_fig2_rate_vs_efficiency",
       "create_fig3_hydraulic_performance",
       "create_fig4_temperature_sensitivity",
       "create_fig6_greenhouse_gas",
       "create_fig7_phosphorus_removal",
       "create_fig8_doc_leaching",
       "create_fig9_wood_species_comparison",
       "create_fig10_temperature_modeling",
       "create_fig5_cost_analysis",
       "create_synthesis_diagram_enhancement_pathways",
       "create_meta_analysis_performance_plot" >>

NarrationOf(r) ==
    CASE r = "create_fig1_removal_rates_by_strategy" ->
             "Creating Figure 1: Removal rates by strategy..."
      [] r = "create_fig2_rate_vs_efficiency" ->
             "Creating Figure 2: Rate vs efficiency analysis..."
      [] r = "create_fig3_hydraulic_performance" ->
             "Creating Figure 3: Hydraulic performance with carbon dosing..."
      [] r = "create_fig4_temperature_sensitivity" ->
             "Creating Figure 4: Temperature sensitivity analysis..."
      [] r = "create_fig6_greenhouse_gas" ->
             "Creating Figure 6: Greenhouse gas emissions..."
      [] r = "create_fig7_phosphorus_removal" ->
             "Creating Figure 7: Phosphorus removal performance..."
      [] r = "create_fig8_doc_leaching" ->
             "Creating Figure 8: DOC leaching patterns..."
      [] r = "create_fig9_wood_species_comparison" ->
             "Creating Figure 9: Wood species comparison..."
      [] r = "create_fig10_temperature_modeling" ->
             "Creating Figure 10: Temperature modeling results..."
      [] r = "create_fig5_cost_analysis" ->
             "Creating Figure 5: Cost analysis comparison..."
      [] r = "create_synthesis_diagram_enhancement_pathways" ->
             "Creating synthesis diagram: Enhancement pathways framework..."
      [] r = "create_meta_analysis_performance_plot" ->
             "Creating meta-analysis plot: Performance across studies..."
      [] OTHER -> "no narration line"

SummaryLines ==
    { "Figures created:",
      "* Figure 1: Enhancement strategy performance comparison",
      "* Figure 2: Rate vs efficiency by experimental scale",
      "* Figure 3: Hydraulic performance impacts of carbon dosing",
      "* Figure 4: Temperature sensitivity (Q10 coefficients)",
      "* Figure 6: Greenhouse gas emissions vs HRT",
      "* Figure 7: Phosphorus removal by media type",
      "* Figure 8: DOC leaching over time",
      "* Figure 9: Wood species performance comparison",
      "* Figure 10: Temperature dependence modeling" }

Returned(r, upto) == \E j \in 1..upto : trace[j] = Event("return", r)

(* C1: when the driver has returned, every figure routine of the module,   *)
(* create_fig12_decision_framework included, has been invoked exactly once *)
C1_EveryRoutineInvokedOnce ==
    (mode = "driver" /\ status = "done") => \A r \in Routines : calls[r] = 1

(* C2: the driver calls the routines in the documented order, the print    *)
(* just before each call is that figure's narration line (and each         *)
(* narration line printed is followed by the call), and a line of the      *)
(* summary listing is printed only when all twelve routines have returned  *)
C2_FixedOrderNarrationSummary ==
    mode = "driver" =>
        /\ Len(CallsOf(trace)) <= Len(ClaimedOrder)
        /\ \A k \in 1..Len(CallsOf(trace)) : CallsOf(trace)[k].a = ClaimedOrder[k]
        /\ \A i \in DOMAIN trace :
              IsCall(trace[i]) =>
                  /\ i > 1
                  /\ trace[i - 1] = Event("print", NarrationOf(trace[i].a))
        /\ \A i \in DOMAIN trace :
              /\ trace[i].e = "print"
              /\ \E k \in DOMAIN ClaimedOrder : trace[i].a = NarrationOf(ClaimedOrder[k])
              /\ i < Len(trace)
              => trace[i + 1] = Event("call", CHOOSE r \in Routines : NarrationOf(r) = trace[i].a)
        /\ \A i \in DOMAIN trace :
              (trace[i].e = "print" /\ trace[i].a \in SummaryLines) =>
                  \A k \in DOMAIN ClaimedOrder : Returned(ClaimedOrder[k], i)
        /\ status = "done" =>
              /\ Len(CallsOf(trace)) = Len(ClaimedOrder)
              /\ \A l \in SummaryLines : \E i \in DOMAIN trace : trace[i] = Event("print", l)

C2_Witness ==
    /\ mode = "driver"
    /\ status = "done"
    /\ Len(CallsOf(trace)) = 12
    /\ trace[Len(trace)] = Event("print", "* Figure 10: Temperature dependence modeling")

(* C3: a complete run of the driver has written exactly twelve files, one  *)
(* by each routine it invoked, at pairwise distinct paths                  *)
C3_TwelveDistinctFiles ==
    (mode = "driver" /\ status = "done") =>
        /\ Len(rets) = 12
        /\ Cardinality(DOMAIN files) = 12
        /\ \A i \in DOMAIN rets : Cardinality(Saved(rets[i].ev)) = 1
        /\ \A i, j \in DOMAIN rets : i # j => Saved(rets[i].ev) \cap Saved(rets[j].ev) = {}
        /\ DOMAIN files = UNION {Saved(rets[i].ev) : i \in DOMAIN rets}

C3_Witness ==
    /\ mode = "driver"
    /\ status = "done"
    /\ Cardinality(DOMAIN files) = 12
    /\ "fig5_cost_analysis.pdf" \in DOMAIN files
    /\ "fig_synthesis_enhancement_pathways.pdf" \in DOMAIN files

(* C4: every invocation that returned called savefig exactly once; two     *)
(* invocations of one routine saved to the same path whatever their fits   *)
(* did, invocations of different routines to different paths; and no file  *)
(* exists that was not written by a savefig call                           *)
C4_OneSavePerInvocation ==
    /\ \A i \in DOMAIN rets : Len(SavesOf(rets[i].ev)) = 1
    /\ \A i, j \in DOMAIN rets :
          (rets[i].r = rets[j].r) <=> (Saved(rets[i].ev) = Saved(rets[j].ev))
    /\ DOMAIN files = UNION ({Saved(rets[i].ev) : i \in DOMAIN rets} \cup {Saved(ev)})

C4_Witness ==
    /\ Len(rets) = 2
    /\ rets[1].r = rets[2].r
    /\ rets[1].caught = {}
    /\ rets[2].caught # {}
    /\ Saved(rets[1].ev) = Saved(rets[2].ev)

(* C5: a failing fit (power-law, cubic polynomial, exponential or          *)
(* exponential-decay) never ends the routine: the exception is swallowed   *)
(* and the routine goes on to save and close its figure                    *)
C5_FitFailureNeverAborts ==
    status = "aborted" => Body(err.r)[err.step].k # "fit"

(* C6, as claimed: the only exceptions a routine swallows are those of a   *)
(* curve fit                                                               *)
C6_OnlyFitFailuresCaught ==
    /\ \A s \in caught : Body(cur)[s].k = "fit"
    /\ \A i \in DOMAIN rets : \A s \in rets[i].caught : Body(rets[i].r)[s].k = "fit"

(* The statements of the try blocks: the curve_fit calls with the plotting *)
(* of their overlay, and the R2 annotation of create_fig2                  *)
InTryBlock(r, step) ==
    \/ /\ r = "create_fig2_rate_vs_efficiency"
       /\ \/ step.k = "fit"
          \/ step.k = "corr"
          \/ step.k = "draw" /\ step.a \in {"ax:lab_trend", "ax:lab_band",
                                            "ax:field_trend", "ax:r2_text"}
    \/ /\ r = "create_fig6_greenhouse_gas"
       /\ \/ step.k = "fit" /\ step.a = "ch4_exp"
          \/ step.k = "draw" /\ step.a = "ax2:ch4_trend"
    \/ /\ r = "create_fig8_doc_leaching"
       /\ \/ step.k = "fit"
          \/ step.k = "draw" /\ step.a \in {"ax:trend_woodchips", "ax:trend_corn_cobs",
                "ax:trend_cereal_straws", "ax:trend_pre_leached",
                "ax:trend_composted_chips"}

(* C6, amended: a routine swallows an exception exactly when it is raised  *)
(* inside one of its try blocks (a curve_fit block, overlay plotting       *)
(* included, or the R2 annotation block of create_fig2); an exception of   *)
(* any other statement (literal data, np.polyfit, plotting outside a try   *)
(* block, savefig, close) propagates to the caller                         *)
C6_CaughtExactlyInTryBlocks ==
    /\ \A s \in caught : InTryBlock(cur, Body(cur)[s])
    /\ \A i \in DOMAIN rets :
          \A s \in rets[i].caught : InTryBlock(rets[i].r, Body(rets[i].r)[s])
    /\ status = "aborted" => ~InTryBlock(err.r, Body(err.r)[err.step])
    /\ (faults > 0 /\ status # "aborted") =>
          \/ caught # {}
          \/ \E i \in DOMAIN rets : rets[i].caught # {}

C6_Witness ==
    \E i \in DOMAIN rets :
        /\ rets[i].r = "create_fig2_rate_vs_efficiency"
        /\ \E s \in rets[i].caught : Body(rets[i].r)[s].k = "corr"
        /\ Len(SavesOf(rets[i].ev)) = 1

(* C7: once a routine has raised in a run of the driver, the run is over:  *)
(* no routine after it in the order is ever called, none is called twice,  *)
(* the files of the routines before it exist and no other file does,       *)
(* except the raising routine's own if it had already saved                *)
C7_AbortStopsBatch ==
    (mode = "driver" /\ err # NoErr) =>
        /\ status = "aborted"
        /\ cur = err.r
        /\ \E k \in DOMAIN ClaimedOrder :
              /\ ClaimedOrder[k] = err.r
              /\ \A j \in DOMAIN ClaimedOrder :
                    calls[ClaimedOrder[j]] = IF j <= k THEN 1 ELSE 0
              /\ Len(rets) = k - 1
              /\ \A i \in DOMAIN rets :
                    /\ rets[i].r = ClaimedOrder[i]
                    /\ Saved(rets[i].ev) # {}
                    /\ Saved(rets[i].ev) \subseteq DOMAIN files
              /\ DOMAIN files =
                    UNION ({Saved(rets[i].ev) : i \in DOMAIN rets} \cup {Saved(ev)})
              /\ \A i \in DOMAIN trace : IsCall(trace[i]) =>
                    \E j \in 1..k : trace[i].a = ClaimedOrder[j]

C7_Witness ==
    /\ mode = "driver"
    /\ status = "aborted"
    /\ err.r = "create_fig6_greenhouse_gas"
    /\ Len(rets) = 4
    /\ Cardinality(DOMAIN files) = 4

(* C8: every invocation that returned opened one figure, saved it and then *)
(* closed it, in this order, whether or not an exception was swallowed on  *)
(* the way; and whenever no routine is executing no figure is open         *)
C8_FigureOpenedSavedClosed ==
    /\ \A i \in DOMAIN rets : Kinds(rets[i].ev) = <<"open", "save", "close">>
    /\ cur = "none" => figs = <<>>

C8_Witness ==
    /\ cur = "none"
    /\ figs = <<>>
    /\ Len(rets) = 2
    /\ rets[2].r = "create_fig6_greenhouse_gas"
    /\ rets[2].caught # {}
    /\ Kinds(rets[2].ev) = <<"open", "save", "close">>

(* C9: the sequences a routine uses index by index all have one length     *)
C9_AlignedSequencesEqualLength ==
    (cur # "none" /\ locals # NoData) =>
        \A g \in Aligned(cur) : \A a, b \in g : Len(locals[a]) = Len(locals[b])

C9_Witness ==
    /\ cur = "create_meta_analysis_performance_plot"
    /\ locals # NoData
    /\ "ax2:cost_errorbars" \in Canvas
    /\ Len(locals["cost_uncertainty"]) = 5

(* C10: once create_fig5_cost_analysis has drawn its bars and labels, each *)
(* value with a documented source equals raw * deflator(source year),      *)
(* rounded to the precision it is displayed with (whole dollars or tenths  *)
(* of a dollar); the raw 86 of 2024 is shown as round(84.71) = 85          *)
C10_CostsStandardized ==
    (cur = "create_fig5_cost_analysis" /\ "ax:cost_labels" \in Canvas) =>
        \A c \in RawCosts :
            LET shown == locals[c.series][c.i]
                unit  == IF shown % 1000 = 0 THEN 1000 ELSE 100
            IN  shown = RoundTo(Standardized(c.raw, c.year), unit)

C10_Witness ==
    /\ cur = "create_fig5_cost_analysis"
    /\ "ax:cost_labels" \in Canvas
    /\ locals["typical_cost"][4] = 85000
    /\ Standardized(86000, 2024) = 84710

(***************************************************************************)
(* The temperature law of figure 10                                        *)
(***************************************************************************)

InFig10 == cur = "create_fig10_temperature_modeling" /\ locals # NoData

(* C11: once create_fig10_temperature_modeling has bound its data, the     *)
(* modeled rate is 8.0 at 20 degrees (base_rate exactly) and 9.28 at 30    *)
(* degrees (base_rate * theta), it is below base_rate under 20 degrees and *)
(* above it over 20 degrees, and it rises along the grid                   *)
C11_ModeledRateLaw ==
    InFig10 =>
        /\ base_rate = 8000 /\ theta = 1160
        /\ \A i \in 1..Len(locals["temperatures"]) :
              LET t == locals["temperatures"][i]
                  m == locals["modeled_rates"][i]
              IN  /\ t = 20000 => m = base_rate
                  /\ t = 30000 => m = (base_rate * theta) \div 1000 /\ m = 9280
                  /\ t < 20000 => m < base_rate
                  /\ t > 20000 => m > base_rate
        /\ \A i \in 1..(Len(locals["modeled_rates"]) - 1) :
              locals["modeled_rates"][i] < locals["modeled_rates"][i + 1]

C11_Witness ==
    /\ InFig10
    /\ "ax1:arrhenius_model" \in Canvas
    /\ \E i, j \in 1..Len(locals["temperatures"]) :
          /\ locals["temperatures"][i] = 20000 /\ locals["modeled_rates"][i] = 8000
          /\ locals["temperatures"][j] = 30000 /\ locals["modeled_rates"][j] = 9280
(***************************************************************************)
(* Repeated invocations                                                    *)
(***************************************************************************)

(* The paths every invocation so far has saved to *)
PathsSaved == UNION ({Saved(rets[k].ev) : k \in DOMAIN rets} \cup {Saved(ev)})

(* C12: when one routine returns twice in succession, the same fits having *)
(* failed in both invocations, the second invocation saved the same        *)
(* content as the first, to the same single path, and the only files that  *)
(* exist are those at the paths the invocations saved to                   *)
C12_SecondCallSameArtifact ==
    \A i \in 1..(Len(rets) - 1) :
        (rets[i].r = rets[i + 1].r /\ rets[i].caught = rets[i + 1].caught) =>
            /\ rets[i + 1].content = rets[i].content
            /\ Saved(rets[i + 1].ev) = Saved(rets[i].ev)
            /\ Cardinality(Saved(rets[i].ev)) = 1
            /\ Cardinality(rets[i].content) = 1
            /\ DOMAIN files = PathsSaved

C12_Witness ==
    /\ Len(rets) = 2
    /\ rets[1].r = "create_fig1_removal_rates_by_strategy"
    /\ rets[2].r = "create_fig1_removal_rates_by_strategy"
    /\ rets[2].content = rets[1].content
    /\ DOMAIN files = {"fig1_removal_rates_scientific.pdf"}
(***************************************************************************)
(* Independence of the routines                                            *)
(***************************************************************************)

(* Step j of routine r was skipped: a step s at or before it raised inside *)
(* the try block that holds both                                           *)
Skipped(r, j, c) == \E s \in c : s <= j /\ j < Body(r)[s].h

(* What routine r saves when nothing ran before it, the steps c raising *)
Alone(r, c) ==
    [ els |-> {Body(r)[j].a : j \in {i \in DOMAIN Body(r) :
                   Body(r)[i].k \in {"draw", "legend"} /\ ~Skipped(r, i, c)}},
      data |-> Data(r),
      format |-> "pdf",
      dpi |-> 300,
      bbox |-> "tight",
      style |-> rcParams,
      colors |-> IF r \in UsesPalette THEN colors_scientific ELSE <<>> ]

(* C13: whatever was invoked before it (the driver's order, nothing, or    *)
(* any other routines in any order), every invocation that returned saved  *)
(* the content the routine saves when it runs alone                        *)
C13_ContentIndependentOfOrder ==
    \A k \in DOMAIN rets : rets[k].content = {Alone(rets[k].r, rets[k].caught)}

C13_Witness ==
    /\ mode = "free"
    /\ Len(rets) = 2
    /\ rets[1].r = "create_meta_analysis_performance_plot"
    /\ rets[2].r = "create_synthesis_diagram_enhancement_pathways"
    /\ rets[2].content = {Alone("create_synthesis_diagram_enhancement_pathways", {})}

(* C14: the style configuration and the shared palette keep the values the *)
(* module gave them, in every state, so after any routine returns they are *)
(* what they were before the call; and the datasets a routine has bound    *)
(* stay what its literal assignments made them until it returns            *)
C14_NoStateOutlivesRoutine ==
    /\ rc = rcParams
    /\ palette = colors_scientific
    /\ (cur # "none" /\ locals # NoData) => locals = Data(cur)
    /\ cur = "none" => locals = NoData

C14_Witness ==
    /\ Len(rets) = 2
    /\ rets[1].r = "create_synthesis_diagram_enhancement_pathways"
    /\ rets[2].r = "create_fig1_removal_rates_by_strategy"
    /\ cur = "none"
    /\ rc = rcParams
    /\ palette = colors_scientific
(***************************************************************************)
(* Format and resolution of the saved files                                *)
(***************************************************************************)

(* C15: every file a routine has written has a .pdf path and was saved as  *)
(* pdf at 300 dpi with a tight bounding box, the two routines that pass no *)
(* dpi to savefig included                                                 *)
C15_SameFormatAndResolution ==
    \A p \in DOMAIN files :
        /\ Ext(p) = "pdf"
        /\ files[p].format = "pdf"
        /\ files[p].dpi = 300
        /\ files[p].bbox = "tight"

C15_Witness ==
    /\ "fig_synthesis_enhancement_pathways.pdf" \in DOMAIN files
    /\ "fig1_removal_rates_scientific.pdf" \in DOMAIN files
    /\ SavefigArgs("create_synthesis_diagram_enhancement_pathways").dpi = 0
    /\ files["fig_synthesis_enhancement_pathways.pdf"].dpi = 300
    /\ files["fig1_removal_rates_scientific.pdf"].dpi = 300
(***************************************************************************)
(* The success line of the driver                                          *)
(***************************************************************************)

SuccessLine == "All enhanced scientific figures generated successfully as PDFs!"
SuccessAt == {i \in DOMAIN trace : trace[i] = Event("print", SuccessLine)}

(* C16: in a run of the driver the success line is printed at most once,   *)
(* and when it is printed each of the twelve routines has returned before  *)
(* it, having saved a file that exists, and no exception is pending        *)
C16_SuccessLineOnceAfterAll ==
    mode = "driver" =>
        /\ Cardinality(SuccessAt) <= 1
        /\ \A i \in SuccessAt :
              /\ err = NoErr
              /\ \A n \in DOMAIN ClaimedOrder :
                    /\ Returned(ClaimedOrder[n], i - 1)
                    /\ \E k \in DOMAIN rets :
                          /\ rets[k].r = ClaimedOrder[n]
                          /\ Cardinality(Saved(rets[k].ev)) = 1
                          /\ Saved(rets[k].ev) \subseteq DOMAIN files

C16_Witness ==
    /\ mode = "driver"
    /\ status = "done"
    /\ Cardinality(SuccessAt) = 1
    /\ Len(rets) = 12
    /\ Cardinality(DOMAIN files) = 12
(***************************************************************************)
(* The numbers of the meta-analysis plot and of the Q10 reference line     *)
(***************************************************************************)

InMeta == cur = "create_meta_analysis_performance_plot" /\ locals # NoData

(* The index of a strategy in the meta-analysis plot *)
StrategyIndex(name) ==
    CHOOSE i \in DOMAIN create_meta_analysis_performance_plot_data.strategies :
        create_meta_analysis_performance_plot_data.strategies[i] = name

(* C17: once panel B of the meta-analysis plot is drawn, the Carbon Dosing *)
(* cost is the 2024 value of 86 dollars times 0.985, as displayed in whole *)
(* dollars, which is the typical acetate cost of create_fig5_cost_analysis *)
C17_MetaCostStandardized ==
    (InMeta /\ "ax2:bubble_scatter" \in Canvas) =>
        /\ locals["cost_data"][StrategyIndex("Carbon Dosing")]
              = RoundTo(Standardized(86000, 2024), 1000)
        /\ locals["cost_data"][StrategyIndex("Carbon Dosing")]
              = create_fig5_cost_analysis_data.typical_cost[4]

(* C18: once figure 10 has its modeled rates, the ratio of the modeled     *)
(* rates of 30 and 20 degrees (a rise of 10 degrees, theta = 1.16) is      *)
(* within a quarter of the 2.0 of the reference line of figure 4           *)
C18_ThetaGivesBaselineQ10 ==
    InFig10 =>
        \A i, j \in 1..Len(locals["temperatures"]) :
            (locals["temperatures"][j] - locals["temperatures"][i] = 10000) =>
                LET q10 == (locals["modeled_rates"][j] * 1000) \div locals["modeled_rates"][i]
                IN  /\ q10 >= halaburka_baseline - 250
                    /\ q10 <= halaburka_baseline + 250

(* C19: once the error bars of panel B are drawn, the horizontal bar of    *)
(* each strategy runs from its ci_lower to its ci_upper                    *)
C19_ErrorBarCoversInterval ==
    (InMeta /\ "ax2:cost_errorbars" \in Canvas) =>
        \A i \in DOMAIN locals["mean_rates"] :
            ErrorBar(locals["mean_rates"][i],
                     xerr(locals["ci_upper"], locals["ci_lower"])[i])
                = [lo |-> locals["ci_lower"][i], hi |-> locals["ci_upper"][i]]

(* C20: once the band of panel A is drawn, the Control Mean line is at the *)
(* mean rate of Control and the band spans Control's ci_lower to ci_upper  *)
C20_ControlLineAndBand ==
    (InMeta /\ "ax1:control_ci_band" \in Canvas) =>
        /\ control_mean_line = locals["mean_rates"][StrategyIndex("Control")]
        /\ control_ci_band.lo = locals["ci_lower"][StrategyIndex("Control")]
        /\ control_ci_band.hi = locals["ci_upper"][StrategyIndex("Control")]
(***************************************************************************)
(* The datasets of the meta-analysis plot and of figures 1 and 5           *)
(***************************************************************************)

(* C21: once the forest plot of panel A is drawn, the interval of every    *)
(* strategy holds its mean strictly inside and is centred on it            *)
C21_IntervalSymmetricAboutMean ==
    (InMeta /\ "ax1:forest_plot" \in Canvas) =>
        \A i \in DOMAIN locals["mean_rates"] :
            /\ locals["ci_lower"][i] < locals["mean_rates"][i]
            /\ locals["mean_rates"][i] < locals["ci_upper"][i]
            /\ locals["mean_rates"][i] - locals["ci_lower"][i]
                  = locals["ci_upper"][i] - locals["mean_rates"][i]

C21_Witness ==
    /\ InMeta
    /\ "ax1:forest_plot" \in Canvas
    /\ Len(locals["mean_rates"]) = 5
    /\ locals["mean_rates"][1] - locals["ci_lower"][1] = 2200
    /\ locals["ci_upper"][1] - locals["mean_rates"][1] = 2200
InFig1 == cur = "create_fig1_removal_rates_by_strategy" /\ locals # NoData

(* C22: once the count labels of figure 1 are drawn, for every strategy    *)
(* the laboratory and field segments are 0.65 and 0.35 of the rate, the    *)
(* top of the stack is the rate, the error bar is centred on that top, and *)
(* the count label stands above the upper end of the error bar             *)
C22_StackSumsToRate ==
    (InFig1 /\ "ax:count_labels" \in Canvas) =>
        \A i \in DOMAIN locals["rates"] :
            LET top == StackTop(locals["lab_rates"], locals["field_rates"])[i]
                bar == ErrorBar(locals["rates"][i], locals["std_devs"][i])
            IN  /\ locals["lab_rates"][i] * 1000 = locals["rates"][i] * 650
                /\ locals["field_rates"][i] * 1000 = locals["rates"][i] * 350
                /\ top = locals["rates"][i]
                /\ bar.lo + bar.hi = 2 * top
                /\ CountLabelAt(locals["rates"][i], locals["std_devs"][i]) > bar.hi
                /\ CountLabelAt(locals["rates"][i], locals["std_devs"][i])
                      = top + locals["std_devs"][i] + 1500

C22_Witness ==
    /\ InFig1
    /\ "ax:count_labels" \in Canvas
    /\ locals["lab_rates"][2] = 2730
    /\ locals["field_rates"][2] = 1470
    /\ StackTop(locals["lab_rates"], locals["field_rates"])[2] = 4200
(***************************************************************************)
(* Independence of the overlays of one figure                              *)
(***************************************************************************)

(* The elements a returned invocation saved *)
ElsOf(ret) == UNION {c.els : c \in ret.content}

(* A step of the overlay made of the steps named in args raised *)
Failed(ret, args) == \E s \in ret.caught : Body(ret.r)[s].a \in args

LabOverlay == {"lab", "ax:lab_trend", "ax:lab_band"}
FieldOverlay == {"field", "ax:field_trend"}
R2Overlay == {"r2", "ax:r2_text"}
Media == <<"woodchips", "corn_cobs", "cereal_straws", "pre_leached", "composted_chips">>
MediumOverlay(n) == {Media[n], "ax:trend_" \o Media[n]}

(* Every name a step in a try block reads is bound earlier in the same block *)
ReadsOwnBlock(r) ==
    \A j \in DOMAIN Body(r) : \A name \in Reads(Body(r)[j]) :
        \E s \in 1..(j - 1) :
            /\ name \in Binds(Body(r)[s])
            /\ Body(r)[s].h = Body(r)[j].h
            /\ Body(r)[s].h # 0

(* C23: in every returned invocation of create_fig2_rate_vs_efficiency a   *)
(* failed laboratory overlay leaves the field trend and the R2 annotation  *)
(* drawn (unless they failed themselves) and a failed field overlay leaves *)
(* the laboratory trend and band drawn; in create_fig8_doc_leaching a      *)
(* failed overlay of one medium leaves the trend lines of the later media  *)
(* drawn; and no overlay reads a name that another overlay binds           *)
C23_OverlaysIndependent ==
    /\ ReadsOwnBlock("create_fig2_rate_vs_efficiency")
    /\ ReadsOwnBlock("create_fig8_doc_leaching")
    /\ \A k \in DOMAIN rets :
          /\ rets[k].r = "create_fig2_rate_vs_efficiency" =>
                /\ (Failed(rets[k], LabOverlay) /\ ~Failed(rets[k], FieldOverlay))
                      => "ax:field_trend" \in ElsOf(rets[k])
                /\ (Failed(rets[k], LabOverlay) /\ ~Failed(rets[k], R2Overlay))
                      => "ax:r2_text" \in ElsOf(rets[k])
                /\ (Failed(rets[k], FieldOverlay) /\ ~Failed(rets[k], LabOverlay))
                      => {"ax:lab_trend", "ax:lab_band"} \subseteq ElsOf(rets[k])
          /\ rets[k].r = "create_fig8_doc_leaching" =>
                \A m, n \in DOMAIN Media :
                    (m < n /\ Failed(rets[k], MediumOverlay(m))
                          /\ ~Failed(rets[k], MediumOverlay(n)))
                        => ("ax:trend_" \o Media[n]) \in ElsOf(rets[k])

C23_Witness ==
    \E k \in DOMAIN rets :
        /\ rets[k].r = "create_fig2_rate_vs_efficiency"
        /\ Failed(rets[k], {"lab"})
        /\ "ax:lab_trend" \notin ElsOf(rets[k])
        /\ "ax:field_trend" \in ElsOf(rets[k])
        /\ "ax:r2_text" \in ElsOf(rets[k])
(***************************************************************************)
(* The summary listing of the driver                                       *)
(***************************************************************************)

(* The entry of the listing of lines 1118-1126 that names a routine's figure *)
SummaryEntry(r) ==
    CASE r = "create_fig1_removal_rates_by_strategy" ->
             "* Figure 1: Enhancement strategy performance comparison"
      [] r = "create_fig2_rate_vs_efficiency" ->
             "* Figure 2: Rate vs efficiency by experimental scale"
      [] r = "create_fig3_hydraulic_performance" ->
             "* Figure 3: Hydraulic performance impacts of carbon dosing"
      [] r = "create_fig4_temperature_sensitivity" ->
             "* Figure 4: Temperature sensitivity (Q10 coefficients)"
      [] r = "create_fig6_greenhouse_gas" ->
             "* Figure 6: Greenhouse gas emissions vs HRT"
      [] r = "create_fig7_phosphorus_removal" ->
             "* Figure 7: Phosphorus removal by media type"
      [] r = "create_fig8_doc_leaching" ->
             "* Figure 8: DOC leaching over time"
      [] r = "create_fig9_wood_species_comparison" ->
             "* Figure 9: Wood species performance comparison"
      [] r = "create_fig10_temperature_modeling" ->
             "* Figure 10: Temperature dependence modeling"
      [] OTHER -> "no entry"

Listed(r) == \E i \in DOMAIN trace : trace[i] = Event("print", SummaryEntry(r))

(* C24: when the driver has returned, the listing printed after 'Figures   *)
(* created:' has an entry for each of the twelve routines that were invoked *)
C24_SummaryNamesEveryFigure ==
    (mode = "driver" /\ status = "done") =>
        \A r \in Routines : calls[r] > 0 => Listed(r)
(***************************************************************************)
(* Axis limits                                                             *)
(***************************************************************************)

(* The error of point i of a series, 0 when it is drawn without error bars *)
ErrOf(lim, i) == IF lim.e = "" THEN 0 ELSE locals[lim.e][i]

(* C25: once a routine has bound its data, every value of every series it  *)
(* draws along an axis with fixed limits, and both ends of its error bar,  *)
(* lie within those limits                                                 *)
C25_DataWithinAxisLimits ==
    (cur # "none" /\ locals # NoData) =>
        \A lim \in AxisLimits(cur) : \A i \in DOMAIN locals[lim.v] :
            /\ lim.lo <= ErrorBar(locals[lim.v][i], ErrOf(lim, i)).lo
            /\ ErrorBar(locals[lim.v][i], ErrOf(lim, i)).hi <= lim.hi

C25_Witness ==
    /\ cur = "create_fig7_phosphorus_removal"
    /\ locals # NoData
    /\ "ax:zero_line" \in Canvas
    /\ ErrorBar(locals["startup_removal"][1], locals["startup_error"][1]).lo = -40000
    /\ L("startup_removal", "startup_error", -50000, 95000) \in AxisLimits(cur)
(***************************************************************************)
(* The scenario costs of figure 5                                          *)
(***************************************************************************)

(* C26: once the bars and labels of create_fig5_cost_analysis are drawn,   *)
(* for every strategy low_cost <= typical_cost <= high_cost, and the label *)
(* of every bar is the text of that bar's own height, placed above it      *)
C26_ScenarioCostsOrdered ==
    (cur = "create_fig5_cost_analysis" /\ "ax:cost_labels" \in Canvas) =>
        /\ \A i \in DOMAIN locals["typical_cost"] :
              /\ locals["low_cost"][i] <= locals["typical_cost"][i]
              /\ locals["typical_cost"][i] <= locals["high_cost"][i]
        /\ \A k \in DOMAIN bar_costs : \A i \in DOMAIN locals[bar_costs[k]] :
              /\ BarLabel(locals, k, i).text = CostLabel(locals[bar_costs[k]][i])
              /\ BarLabel(locals, k, i).at > locals[bar_costs[k]][i]

C26_Witness ==
    /\ cur = "create_fig5_cost_analysis"
    /\ "ax:cost_labels" \in Canvas
    /\ BarLabel(locals, 2, 2).text = "$12.2"
    /\ BarLabel(locals, 3, 3).text = "$60.1"
    /\ BarLabel(locals, 1, 1).text = "$20"
    /\ locals["low_cost"][2] < locals["typical_cost"][2]
(***************************************************************************)
(* Legends                                                                 *)
(***************************************************************************)

(* The entries of all the legends the current invocation has built *)
ShownInLegend ==
    UNION { LegendEntries(cur, l, Canvas) :
              l \in { i \in 1..(rpc - 1) : i <= Len(Body(cur)) /\ Body(cur)[i].k = "legend"
                                             /\ Body(cur)[i].a \in Canvas } }

(* C27: once a routine has saved its figure, every labelled element on the *)
(* figure is an entry of a legend of its axes                              *)
C27_LabelledElementsInLegend ==
    (cur # "none" /\ Saved(ev) # {}) =>
        \A el \in Canvas \cap Labelled(cur) : el \in ShownInLegend
====
